---------------------------- MODULE Spec2Model ----------------------------
(***************************************************************************)
(* A model of the SF50 AFM table extractors:                               *)
(*   src/Data/make-tables/extract_g1_data.py      (AFMDataExtractor)       *)
(*   src/Data/make-tables/extract_g2plus_data.py  (G2PlusAFMDataExtractor) *)
(*                                                                         *)
(* Text is modelled at character level: a Python str is a sequence of      *)
(* one-character strings, a page is the sequence of its lines              *)
(* (text.split('\n')), and every regular expression of the source is an    *)
(* operator that computes what the expression matches.  A CSV record is    *)
(* the 4-tuple <<weight, altitude, temperature, value>> of Python strings  *)
(* that the source appends.  A float is a fixed-point integer in units of  *)
(* 0.00001 degC.                                                           *)
(***************************************************************************)
EXTENDS Integers, Sequences, FiniteSets, TLC

VARIABLES
    family,              \* which table assembler runs
    flap_setting,        \* landing configuration ("100", "50", "50 ice"), "" otherwise
    weight,              \* the weight whose pages are scanned
    pages,               \* the page texts of the scan, each a sequence of lines
    page,                \* 1-based index of the page being scanned
    i,                   \* 0-based index of the next line of the page (enumerate)
    current_altitude,    \* altitude context of the scan (None or a str)
    all_ground_run,      \* records of the ground-run table
    all_total_distance,  \* records of the total-distance table
    pc,                  \* position of the scan: "scan", "find", "anchor", "collect", "done"
    climb_data,          \* the list data of parse_climb_gradient_tables
    altitude_data,       \* G1 climb: the anchors found, <<line index, altitude, values>>
    processed_lines,     \* G1 climb: indices of the lines consumed as temperature rows
    anchor,              \* G1 climb: position of the anchor loop in altitude_data
    j,                   \* G1 climb: offset of the line examined after the anchor
    temp_data,           \* G1 climb: temperature -> values collected for the anchor
    isa_altitude,        \* the altitude calculate_isa_temp is called with
    isa_temp_g1,         \* what the G1 resolver returned: <<>> before the call, then <<value>>
    isa_temp_g2,         \* what the G2+ resolver returned: <<>> before the call, then <<value>>
    runs,                \* the runs of assemblers started so far: "first", "other", "again"
    first_run,           \* what the first run was given and what it returned
    pdf_exists,          \* the input document exists at pdf_path
    exit_status,         \* <<>> while main runs, then <<status>> of sys.exit / the return
    files,               \* the table files written by save_csv
    vref_data            \* extract_vref_data: file name -> the rows <<weight, value>>

\* the state of the climb scans
climb_vars == <<climb_data, altitude_data, processed_lines, anchor, j, temp_data>>

\* the state of the ground-run scans
ground_vars == <<current_altitude, all_ground_run, all_total_distance>>

\* the state of the table extraction
extract_vars == <<family, flap_setting, weight, pages, page, i, current_altitude,
                  all_ground_run, all_total_distance, pc, climb_data, altitude_data,
                  processed_lines, anchor, j, temp_data>>

\* the state outside the table extraction
\* the state of main
main_vars == <<pdf_exists, exit_status, files>>

aux_vars == <<isa_altitude, isa_temp_g1, isa_temp_g2, runs, first_run, pdf_exists,
              exit_status, files, vref_data>>

vars == <<family, flap_setting, weight, pages, page, i, current_altitude,
          all_ground_run, all_total_distance, pc, climb_data, altitude_data,
          processed_lines, anchor, j, temp_data, isa_altitude, isa_temp_g1, isa_temp_g2,
          runs, first_run, pdf_exists, exit_status, files, vref_data>>

---------------------------------------------------------------------------
(* Bounds of the model.                                                    *)

\* most numeric tokens a generated ground-run row carries
MaxTokens == 9
\* most lines of a generated multi-line page
MaxLines == 2

\* the most rows printed below a climb anchor on the pages that vary the rows
MaxRows == 2

\* the most digits of a run-together row of 0 degC, label included
MaxDigits == 18

---------------------------------------------------------------------------
(* Python str and re primitives.                                           *)

None == <<"None">>

Min(a, b) == IF a <= b THEN a ELSE b

Max(a, b) == IF a >= b THEN a ELSE b

IsDigit(c) == c \in {"0", "1", "2", "3", "4", "5", "6", "7", "8", "9"}

IsSpace(c) == c = " "

IsUpper(c) == c \in {"A", "B", "C", "D", "E", "F", "G", "H", "I", "J", "K", "L", "M",
                     "N", "O", "P", "Q", "R", "S", "T", "U", "V", "W", "X", "Y", "Z"}

DigitChar(d) == <<"0", "1", "2", "3", "4", "5", "6", "7", "8", "9">>[d + 1]

DigitVal(c) == CHOOSE d \in 0..9 : DigitChar(d) = c

RECURSIVE NatStr(_)
NatStr(n) == IF n < 10 THEN <<DigitChar(n)>>
             ELSE NatStr(n \div 10) \o <<DigitChar(n % 10)>>

\* str(n) of a Python int
Str(n) == IF n < 0 THEN <<"-">> \o NatStr(-n) ELSE NatStr(n)

RECURSIVE IntAcc(_, _)
IntAcc(s, acc) == IF s = <<>> THEN acc
                  ELSE IntAcc(Tail(s), 10 * acc + DigitVal(Head(s)))

\* int(s) of a Python str of digits ('000' is 0)
int(s) == IntAcc(s, 0)

\* s[a:] with a 0-based
From(s, a) == SubSeq(s, a + 1, Len(s))

\* s[a:b] with 0-based, clamped bounds
Slice(s, a, b) == SubSeq(s, a + 1, Min(b, Len(s)))

startswith(s, p) == Len(s) >= Len(p) /\ SubSeq(s, 1, Len(p)) = p

\* s.find(p): 0-based index of the first occurrence, -1 when absent
find(s, p) ==
    LET hits == {a \in 0..(Len(s) - Len(p)) : startswith(From(s, a), p)}
    IN  IF hits = {} THEN -1 ELSE CHOOSE a \in hits : \A b \in hits : a <= b

\* p in s
contains(s, p) == find(s, p) >= 0

RECURSIVE lstrip(_)
lstrip(s) == IF s # <<>> /\ IsSpace(Head(s)) THEN lstrip(Tail(s)) ELSE s

RECURSIVE rstrip(_)
rstrip(s) == IF s # <<>> /\ IsSpace(s[Len(s)]) THEN rstrip(SubSeq(s, 1, Len(s) - 1)) ELSE s

strip(s) == rstrip(lstrip(s))

\* length of the longest prefix of s whose characters all satisfy the class
RECURSIVE DigitRun(_)
DigitRun(s) == IF s # <<>> /\ IsDigit(Head(s)) THEN 1 + DigitRun(Tail(s)) ELSE 0

RECURSIVE DigitSpaceRun(_)
DigitSpaceRun(s) ==
    IF s # <<>> /\ (IsDigit(Head(s)) \/ IsSpace(Head(s)))
    THEN 1 + DigitSpaceRun(Tail(s)) ELSE 0

\* re.findall(r'\d+', s)
RECURSIVE findall_digits(_)
findall_digits(s) ==
    IF s = <<>> THEN <<>>
    ELSE IF ~IsDigit(Head(s)) THEN findall_digits(Tail(s))
    ELSE LET n == DigitRun(s)
         IN  <<SubSeq(s, 1, n)>> \o findall_digits(From(s, n))

\* s.replace(p, r), leftmost non-overlapping occurrences
RECURSIVE replace(_, _, _)
replace(s, p, r) ==
    IF Len(s) < Len(p) THEN s
    ELSE IF startswith(s, p) THEN r \o replace(From(s, Len(p)), p, r)
    ELSE <<Head(s)>> \o replace(Tail(s), p, r)

\* s.split(): the whitespace-separated parts
RECURSIVE split(_)
split(s) ==
    LET t == lstrip(s)
        n == IF \E a \in 1..Len(t) : IsSpace(t[a])
             THEN (CHOOSE a \in 1..Len(t) : IsSpace(t[a]) /\ \A b \in 1..(a - 1) : ~IsSpace(t[b])) - 1
             ELSE Len(t)
    IN  IF t = <<>> THEN <<>> ELSE <<SubSeq(t, 1, n)>> \o split(From(t, n))

\* s.isdigit()
isdigit(s) == s # <<>> /\ \A a \in 1..Len(s) : IsDigit(s[a])


---------------------------------------------------------------------------
(* Words of the manual's pages.                                            *)

SL == <<"S", "L">>

Gnd == <<"G", "n", "d">>

Roll == <<"R", "o", "l", "l">>

GndRoll == <<"G", "n", "d", " ", "R", "o", "l", "l">>

Total == <<"T", "o", "t", "a", "l">>

Takeoff == <<"T", "a", "k", "e", "o", "f", "f">>

Landing == <<"L", "a", "n", "d", "i", "n", "g">>

---------------------------------------------------------------------------
(* The ground-run line patterns.                                           *)

\* characters consumed by \s*w1\s*w2... at the start of s, -1 when it does not match
RECURSIVE WordsLen(_, _)
WordsLen(s, words) ==
    IF words = <<>> THEN 0
    ELSE LET t == lstrip(s)
             w == Head(words)
             r == IF startswith(t, w) THEN WordsLen(From(t, Len(w)), Tail(words)) ELSE -1
         IN  IF r < 0 THEN -1 ELSE (Len(s) - Len(t)) + Len(w) + r

\* length of group(1) of (SL|\d+) at the start of s, 0 when neither alternative matches
AltTokenLen(s) == IF startswith(s, SL) THEN 2 ELSE DigitRun(s)

\* (SL|\d+)\s*w1\s*w2 matches s at 0-based offset a
AltLabelAt(s, a, words) ==
    LET r == From(s, a)
    IN  AltTokenLen(r) >= 1 /\ WordsLen(From(r, AltTokenLen(r)), words) >= 0

\* re.search(r'(SL|\d+)\s*Gnd\s*Roll', line).group(1), None when there is no match
alt_match(line) ==
    LET hits == {a \in 0..Len(line) : AltLabelAt(line, a, <<Gnd, Roll>>)}
        a0   == CHOOSE a \in hits : \A b \in hits : a <= b
    IN  IF hits = {} THEN None ELSE SubSeq(line, a0 + 1, a0 + AltTokenLen(From(line, a0)))

\* re.sub(r'^.*?w1\s*w2\s*', '', line): the text after the first occurrence of the label
sub_through(line, words) ==
    LET hits == {a \in 0..Len(line) : WordsLen(From(line, a), words) >= 0}
        a0   == CHOOSE a \in hits : \A b \in hits : a <= b
    IN  IF hits = {} THEN line
        ELSE lstrip(From(line, a0 + WordsLen(From(line, a0), words)))

\* re.match(r'(SL|\d+)\s*<label>\s*([\d\s]+)', line): <<group(1), group(2)>>, None when
\* there is no match
match_alt_values(line, words) ==
    LET g    == AltTokenLen(line)
        e    == g + WordsLen(From(line, g), words)
        rest == From(line, e)
    IN  IF g >= 1 /\ WordsLen(From(line, g), words) >= 0 /\ DigitSpaceRun(rest) >= 1
        THEN <<SubSeq(line, 1, g), SubSeq(rest, 1, DigitSpaceRun(rest))>>
        ELSE None

\* '0' if alt_match.group(1) == 'SL' else alt_match.group(1)
normalize_altitude(g) == IF g = SL THEN <<"0">> ELSE g

---------------------------------------------------------------------------
(* Reference-atmosphere resolver, in units of 0.00001 degC.                *)

isa_values ==
    [a \in {0, 1000, 2000, 3000, 4000, 5000, 6000, 7000, 8000, 9000, 10000} |->
        CASE a = 0     -> 1500000
          [] a = 1000  -> 1301880
          [] a = 2000  -> 1103760
          [] a = 3000  -> 905640
          [] a = 4000  -> 707520
          [] a = 5000  -> 509400
          [] a = 6000  -> 311280
          [] a = 7000  -> 113160
          [] a = 8000  -> -84960
          [] a = 9000  -> -283080
          [] a = 10000 -> -481200]

\* mutant of calculate_isa_temp: the linear formula at every altitude
calculate_isa_temp_linear(altitude) == 1500000 - altitude * 198

\* isa_values.get(altitude, 15.0 - (altitude / 1000.0 * self.isa_lapse_rate))
calculate_isa_temp(altitude) ==
    IF altitude \in DOMAIN isa_values THEN isa_values[altitude]
    ELSE 1500000 - altitude * 198

RECURSIVE StripZeros(_)
StripZeros(s) == IF Len(s) > 1 /\ s[Len(s)] = "0" THEN StripZeros(SubSeq(s, 1, Len(s) - 1)) ELSE s

\* str(x) of a Python float: sign, integer part, '.', and the fraction without
\* trailing zeros ('15.0', '13.0188', '-0.8496')
FloatStr(x) ==
    LET a    == IF x < 0 THEN -x ELSE x
        frac == NatStr(100000 + (a % 100000))
    IN  (IF x < 0 THEN <<"-">> ELSE <<>>) \o NatStr(a \div 100000) \o <<".">>
        \o StripZeros(Tail(frac))


---------------------------------------------------------------------------
(* Labelling the tokens of a ground-run or total-distance row.             *)

\* mutant of TempRecords: the present tokens are aligned with the hottest columns
TempRecords_hottest(wt, altitude, temps, values, first, n) ==
    [c \in 1..Max(0, Min(n, Len(temps))) |->
        <<Str(wt), altitude, Str(temps[Len(temps) - Min(n, Len(temps)) + c]),
          values[first + c]>>]

\* the records <<weight, altitude, str(temps[c]), values[first + c]>> for c < n
TempRecords(wt, altitude, temps, values, first, n) ==
    [c \in 1..Max(0, Min(n, Len(temps))) |->
        <<Str(wt), altitude, Str(temps[c]), values[first + c]>>]

\* the record of the reference-atmosphere column, carrying value v
IsaRecord(wt, altitude, v) ==
    <<Str(wt), altitude, FloatStr(calculate_isa_temp(int(altitude))), v>>

\* mutant of expected_cols: the 9-token case counts 7 temperature columns
expected_cols_seven(alt_int, n) ==
    IF alt_int >= 5000 /\ n <= 9
    THEN IF n = 9 THEN 7
         ELSE IF n = 8 THEN 7
         ELSE IF n = 7 THEN 6
         ELSE Min(n, 8)
    ELSE Min(n, 8)

\* G1: expected_cols of _add_performance_values
expected_cols(alt_int, n) ==
    IF alt_int >= 5000 /\ n <= 9
    THEN IF n = 9 THEN 8
         ELSE IF n = 8 THEN 7
         ELSE IF n = 7 THEN 6
         ELSE Min(n, 8)
    ELSE Min(n, 8)

\* G1: AFMDataExtractor._add_performance_values; the value is data after the call
_add_performance_values(data, wt, altitude, values, temps) ==
    LET n  == Len(values)
        ec == expected_cols(int(altitude), n)
    IN  data \o TempRecords(wt, altitude, temps, values, 0, Min(ec, n))
             \o (IF n > ec THEN <<IsaRecord(wt, altitude, values[n])>> ELSE <<>>)

\* G2+: G2PlusAFMDataExtractor._process_takeoff_values
_process_takeoff_values(data, wt, altitude, values) ==
    LET n     == Len(values)
        temps == <<-20, -10, 0, 10, 20, 30, 40, 50>>
    IN  IF int(altitude) >= 7000
        THEN data \o TempRecords(wt, altitude, temps, values, 0, n - 1)
                  \o <<IsaRecord(wt, altitude, values[n])>>
        ELSE data \o TempRecords(wt, altitude, temps, values, 0, Min(8, n))
                  \o (IF n > 8 THEN <<IsaRecord(wt, altitude, values[9])>> ELSE <<>>)

\* mutant of _add_landing_values: the last value of an ice row is saved for the
\* reference-atmosphere column as in the other settings
_add_landing_values_isa(data, wt, altitude, values, flap) ==
    LET n   == Len(values)
        ice == flap = "50 ice"
        first == <<Str(wt), altitude, IF ice THEN Str(-20) ELSE Str(0), values[1]>>
        all_temps == IF ice THEN <<-10, 0, 10>> ELSE <<10, 20, 30, 40, 50>>
    IN  IF n = 0 THEN data
        ELSE IF n = 1 THEN data \o <<first>>
        ELSE data \o <<first>> \o TempRecords(wt, altitude, all_temps, values, 1, n - 2)
                  \o <<IsaRecord(wt, altitude, values[n])>>

\* mutant of _add_landing_values: the setting '50 ice' is not told from the others
_add_landing_values_no_ice(data, wt, altitude, values, flap) ==
    LET n   == Len(values)
        first == <<Str(wt), altitude, Str(0), values[1]>>
        all_temps == <<10, 20, 30, 40, 50>>
    IN  IF n = 0 THEN data
        ELSE IF n = 1 THEN data \o <<first>>
        ELSE data \o <<first>> \o TempRecords(wt, altitude, all_temps, values, 1, n - 2)
                  \o <<IsaRecord(wt, altitude, values[n])>>

\* mutant of _add_landing_values: the second token of a two-token row is labelled 10
_add_landing_values_two(data, wt, altitude, values, flap) ==
    LET n   == Len(values)
        ice == flap = "50 ice"
        first == <<Str(wt), altitude, IF ice THEN Str(-20) ELSE Str(0), values[1]>>
        all_temps == IF ice THEN <<-10, 0, 10>> ELSE <<10, 20, 30, 40, 50>>
    IN  IF n = 0 THEN data
        ELSE IF n = 1 THEN data \o <<first>>
        ELSE IF ice \/ n = 2
        THEN data \o <<first>> \o TempRecords(wt, altitude, all_temps, values, 1, n - 1)
        ELSE data \o <<first>> \o TempRecords(wt, altitude, all_temps, values, 1, n - 2)
                  \o <<IsaRecord(wt, altitude, values[n])>>

\* G1: AFMDataExtractor._add_landing_values
_add_landing_values(data, wt, altitude, values, flap) ==
    LET n   == Len(values)
        ice == flap = "50 ice"
        first == <<Str(wt), altitude, IF ice THEN Str(-20) ELSE Str(0), values[1]>>
        all_temps == IF ice THEN <<-10, 0, 10>> ELSE <<10, 20, 30, 40, 50>>
    IN  IF n = 0 THEN data
        ELSE IF n = 1 THEN data \o <<first>>
        ELSE IF ice
        THEN data \o <<first>> \o TempRecords(wt, altitude, all_temps, values, 1, n - 1)
        ELSE data \o <<first>> \o TempRecords(wt, altitude, all_temps, values, 1, n - 2)
                  \o <<IsaRecord(wt, altitude, values[n])>>

\* mutant of _process_landing_values: the last value is labelled as a printed column
_process_landing_values_no_isa(data, wt, altitude, values) ==
    LET n     == Len(values)
        temps == <<10, 20, 30, 40, 50>>
    IN  IF n = 0 THEN data
        ELSE data \o << <<Str(wt), altitude, Str(0), values[1]>> >>
                  \o TempRecords(wt, altitude, temps, values, 1, n - 1)

\* G2+: G2PlusAFMDataExtractor._process_landing_values
_process_landing_values(data, wt, altitude, values) ==
    LET n     == Len(values)
        temps == <<10, 20, 30, 40, 50>>
    IN  IF n = 0 THEN data
        ELSE data \o << <<Str(wt), altitude, Str(0), values[1]>> >>
                  \o TempRecords(wt, altitude, temps, values, 1, n - 2)
                  \o (IF n > 1 THEN <<IsaRecord(wt, altitude, values[n])>> ELSE <<>>)


---------------------------------------------------------------------------
(* The pages the scans are run on.                                         *)

RECURSIVE join(_)
\* ' '.join(parts)
join(parts) ==
    IF parts = <<>> THEN <<>>
    ELSE IF Len(parts) = 1 THEN parts[1]
    ELSE parts[1] \o <<" ">> \o join(Tail(parts))

\* the n tokens of a printed row: base+50, base+100, ...
RowValues(base, n) == [k \in 1..n |-> Str(base + 50 * k)]

\* '<alt>Gnd Roll v1 ... vn', e.g. 'SLGnd Roll 550 600'
GndRollLine(alt, n) == alt \o GndRoll \o <<" ">> \o join(RowValues(500, n))

\* 'Total v1 ... vn'
TotalLine(n) == Total \o <<" ">> \o join(RowValues(1500, n))

\* a line of running text
TextLine == <<"P", "r", "e", "s", "s", " ", "A", "l", "t">>

\* every altitude token a ground-run anchor is printed with
AltTokens ==
    {SL, <<"0", "0", "0">>, <<"1", "0", ",", "0", "0", "0">>} \cup {Str(1000 * k) : k \in 0..10}

\* pages of one anchor row: every altitude token, 1..MaxTokens tokens
RowPages == {<<GndRollLine(alt, n)>> : alt \in AltTokens, n \in 1..MaxTokens}

\* the lines of the multi-line pages
PageLines ==
    {GndRollLine(alt, 2) : alt \in {SL, <<"0">>, <<"0", "0", "0">>, Str(10000)}}
    \cup {TotalLine(2), TextLine}

SeqPages == UNION {[1..n -> PageLines] : n \in 1..MaxLines}

\* the second page of a G1 takeoff page pair: blank, or a page that opens with a Total row
SecondPages == {<< <<>> >>, <<TotalLine(2)>>}

\* the most lines of running text between an anchor and its Total row
MaxGap == 5

\* pages whose Total row is 1 .. MaxGap + 1 lines below the anchor
FarTotalPages ==
    {<<GndRollLine(Str(1000), 2)>> \o [c \in 1..n |-> TextLine] \o <<TotalLine(2)>> :
        n \in 0..MaxGap}

GroundFamilies == {"g1_takeoff", "g1_landing", "g2_takeoff", "g2_landing"}

\* the weights of page_locations / weight_pages
FamilyWeights(f) == IF f \in {"g1_takeoff", "g2_takeoff"} THEN {6000, 5000} ELSE {5550, 4500}

\* the flap settings of flap_configs (G1 only)
FamilyFlaps(f) == IF f = "g1_landing" THEN {"100", "50", "50 ice"} ELSE {""}

\* the pages scanned for one weight: G1 takeoff scans (start_page, end_page), the
\* other assemblers one page
FamilyPages(f) ==
    IF f = "g1_takeoff"
    THEN {<<p1, p2>> : p1 \in RowPages \cup SeqPages \cup FarTotalPages, p2 \in SecondPages}
    ELSE {<<p1>> : p1 \in RowPages \cup SeqPages \cup FarTotalPages}

\* the first run of an assembler; nothing outside the table extraction has run
IdleAux ==
    /\ isa_altitude = 0
    /\ isa_temp_g1 = <<>>
    /\ isa_temp_g2 = <<>>
    /\ runs = <<"first">>
    /\ first_run = <<>>
    /\ pdf_exists = TRUE
    /\ exit_status = <<>>
    /\ files = {}
    /\ vref_data = <<>>

InitGround ==
    /\ family \in GroundFamilies
    /\ flap_setting \in FamilyFlaps(family)
    /\ weight \in FamilyWeights(family)
    /\ pages \in FamilyPages(family)
    /\ page = 1
    /\ i = 0
    /\ current_altitude = None
    /\ all_ground_run = <<>>
    /\ all_total_distance = <<>>
    /\ pc = "scan"
    /\ climb_data = <<>>
    /\ altitude_data = <<>>
    /\ processed_lines = {}
    /\ anchor = 0
    /\ j = 0
    /\ temp_data = <<>>
    /\ IdleAux

---------------------------------------------------------------------------
(* The ground-run scans, one step per line.                                *)

lines == pages[page]

\* line = line.strip()
line == strip(lines[i + 1])

Scanning(f) == family = f /\ pc = "scan" /\ i < Len(lines)

\* mutant of G1_anchor_altitude: the truncation test compares with '0'
G1_anchor_altitude_zero(g) ==
    IF normalize_altitude(g) = <<"0">> THEN Str(10000) ELSE normalize_altitude(g)

\* G1: the altitude of an anchor (parse_takeoff_tables, parse_landing_tables)
G1_anchor_altitude(g) ==
    IF normalize_altitude(g) = <<"0", "0", "0">> THEN Str(10000) ELSE normalize_altitude(g)

\* G1 parse_takeoff_tables: if "Gnd Roll" in line
G1_parse_takeoff_tables_GndRoll ==
    /\ Scanning("g1_takeoff")
    /\ contains(line, GndRoll)
    /\ LET g      == alt_match(line)
           alt    == G1_anchor_altitude(g)
           values == findall_digits(sub_through(line, <<Gnd, Roll>>))
       IN  IF g = None
           THEN UNCHANGED <<current_altitude, all_ground_run>>
           ELSE /\ current_altitude' = alt
                /\ all_ground_run' =
                     IF values # <<>>
                     THEN _add_performance_values(all_ground_run, weight, alt, values,
                                                  <<-20, -10, 0, 10, 20, 30, 40, 50>>)
                     ELSE all_ground_run
    /\ i' = i + 1
    /\ UNCHANGED <<family, flap_setting, weight, pages, page, all_total_distance, pc>>
    /\ UNCHANGED climb_vars
    /\ UNCHANGED aux_vars

\* G1 parse_takeoff_tables: elif "Total" in line and current_altitude is not None
G1_parse_takeoff_tables_Total ==
    /\ Scanning("g1_takeoff")
    /\ ~contains(line, GndRoll)
    /\ contains(line, Total)
    /\ current_altitude # None
    /\ LET values == findall_digits(replace(sub_through(line, <<Total>>), <<",">>, <<>>))
       IN  all_total_distance' =
             IF values # <<>>
             THEN _add_performance_values(all_total_distance, weight, current_altitude,
                                          values, <<-20, -10, 0, 10, 20, 30, 40, 50>>)
             ELSE all_total_distance
    /\ i' = i + 1
    /\ UNCHANGED <<family, flap_setting, weight, pages, page, current_altitude,
                   all_ground_run, pc>>
    /\ UNCHANGED climb_vars
    /\ UNCHANGED aux_vars

\* G1 parse_landing_tables: if "Gnd Roll" in line
G1_parse_landing_tables_GndRoll ==
    /\ Scanning("g1_landing")
    /\ contains(line, GndRoll)
    /\ LET g      == alt_match(line)
           alt    == G1_anchor_altitude(g)
           values == findall_digits(sub_through(line, <<Gnd, Roll>>))
       IN  IF g = None
           THEN UNCHANGED <<current_altitude, all_ground_run>>
           ELSE /\ current_altitude' = alt
                /\ all_ground_run' =
                     _add_landing_values(all_ground_run, weight, alt, values, flap_setting)
    /\ i' = i + 1
    /\ UNCHANGED <<family, flap_setting, weight, pages, page, all_total_distance, pc>>
    /\ UNCHANGED climb_vars
    /\ UNCHANGED aux_vars

\* G1 parse_landing_tables: elif "Total" in line and current_altitude is not None
G1_parse_landing_tables_Total ==
    /\ Scanning("g1_landing")
    /\ ~contains(line, GndRoll)
    /\ contains(line, Total)
    /\ current_altitude # None
    /\ LET values == findall_digits(replace(sub_through(line, <<Total>>), <<",">>, <<>>))
       IN  all_total_distance' =
             _add_landing_values(all_total_distance, weight, current_altitude, values,
                                 flap_setting)
    /\ i' = i + 1
    /\ UNCHANGED <<family, flap_setting, weight, pages, page, current_altitude,
                   all_ground_run, pc>>
    /\ UNCHANGED climb_vars
    /\ UNCHANGED aux_vars


\* G2+: text.replace('10,000', '10000') and line.strip(), for the line of 0-based index k
G2_line(k) ==
    strip(replace(lines[k + 1], <<"1", "0", ",", "0", "0", "0">>, Str(10000)))

\* G2+: the altitude found "by looking back" from line i: the nearest line b of
\* range(i-1, max(0, i-back), -1) that is a ground-run anchor; None when there is none
G2_lookback(back, both_words) ==
    LET is_anchor(b) == /\ IF both_words
                           THEN contains(G2_line(b), Gnd) /\ contains(G2_line(b), Roll)
                           ELSE contains(G2_line(b), GndRoll)
                        /\ alt_match(G2_line(b)) # None
        hits == {b \in (Max(0, i - back) + 1)..(i - 1) : is_anchor(b)}
        b0   == CHOOSE b \in hits : \A k \in hits : k <= b
    IN  IF hits = {} THEN None ELSE normalize_altitude(alt_match(G2_line(b0)))

\* G2+ extract_takeoff_data: if 'Gnd' in line and 'Roll' in line
G2_extract_takeoff_data_GndRoll ==
    /\ Scanning("g2_takeoff")
    /\ contains(G2_line(i), Gnd) /\ contains(G2_line(i), Roll)
    /\ LET g      == alt_match(G2_line(i))
           values == findall_digits(sub_through(G2_line(i), <<Roll>>))
       IN  all_ground_run' =
             IF g # None /\ values # <<>>
             THEN _process_takeoff_values(all_ground_run, weight, normalize_altitude(g), values)
             ELSE all_ground_run
    /\ i' = i + 1
    /\ UNCHANGED <<family, flap_setting, weight, pages, page, current_altitude,
                   all_total_distance, pc>>
    /\ UNCHANGED climb_vars
    /\ UNCHANGED aux_vars

\* G2+ extract_takeoff_data: elif 'Total' in line and not 'Takeoff' in line
G2_extract_takeoff_data_Total ==
    /\ Scanning("g2_takeoff")
    /\ ~(contains(G2_line(i), Gnd) /\ contains(G2_line(i), Roll))
    /\ contains(G2_line(i), Total) /\ ~contains(G2_line(i), Takeoff)
    /\ LET values   == findall_digits(sub_through(G2_line(i), <<Total>>))
           altitude == G2_lookback(5, TRUE)
       IN  all_total_distance' =
             IF values # <<>> /\ altitude # None
             THEN _process_takeoff_values(all_total_distance, weight, altitude, values)
             ELSE all_total_distance
    /\ i' = i + 1
    /\ UNCHANGED <<family, flap_setting, weight, pages, page, current_altitude,
                   all_ground_run, pc>>
    /\ UNCHANGED climb_vars
    /\ UNCHANGED aux_vars

\* G2+ extract_landing_data: if 'Gnd Roll' in line
G2_extract_landing_data_GndRoll ==
    /\ Scanning("g2_landing")
    /\ contains(G2_line(i), GndRoll)
    /\ LET m      == match_alt_values(G2_line(i), <<Gnd, Roll>>)
           values == findall_digits(m[2])
       IN  all_ground_run' =
             IF m # None
             THEN _process_landing_values(all_ground_run, weight, normalize_altitude(m[1]),
                                          values)
             ELSE all_ground_run
    /\ i' = i + 1
    /\ UNCHANGED <<family, flap_setting, weight, pages, page, current_altitude,
                   all_total_distance, pc>>
    /\ UNCHANGED climb_vars
    /\ UNCHANGED aux_vars

\* G2+ extract_landing_data: elif 'Total' in line and not 'Landing' in line
G2_extract_landing_data_Total ==
    /\ Scanning("g2_landing")
    /\ ~contains(G2_line(i), GndRoll)
    /\ contains(G2_line(i), Total) /\ ~contains(G2_line(i), Landing)
    /\ LET m        == match_alt_values(G2_line(i), <<Total>>)
           values   == findall_digits(replace(sub_through(G2_line(i), <<Total>>),
                                              <<",">>, <<>>))
           altitude == G2_lookback(2, FALSE)
       IN  all_total_distance' =
             IF m # None
             THEN _process_landing_values(all_total_distance, weight,
                                          normalize_altitude(m[1]), findall_digits(m[2]))
             ELSE IF values # <<>> /\ altitude # None
             THEN _process_landing_values(all_total_distance, weight, altitude, values)
             ELSE all_total_distance
    /\ i' = i + 1
    /\ UNCHANGED <<family, flap_setting, weight, pages, page, current_altitude,
                   all_ground_run, pc>>
    /\ UNCHANGED climb_vars
    /\ UNCHANGED aux_vars

\* the line enters no branch of the family's scan
NoBranch ==
    CASE family = "g1_takeoff" \/ family = "g1_landing" ->
            /\ ~contains(line, GndRoll)
            /\ ~(contains(line, Total) /\ current_altitude # None)
      [] family = "g2_takeoff" ->
            /\ ~(contains(G2_line(i), Gnd) /\ contains(G2_line(i), Roll))
            /\ ~(contains(G2_line(i), Total) /\ ~contains(G2_line(i), Takeoff))
      [] family = "g2_landing" ->
            /\ ~contains(G2_line(i), GndRoll)
            /\ ~(contains(G2_line(i), Total) /\ ~contains(G2_line(i), Landing))
      [] OTHER -> FALSE

\* a line that matches no pattern of the scan is passed over
NoMatch ==
    /\ family \in GroundFamilies /\ pc = "scan" /\ i < Len(lines)
    /\ NoBranch
    /\ i' = i + 1
    /\ UNCHANGED <<family, flap_setting, weight, pages, page, current_altitude,
                   all_ground_run, all_total_distance, pc>>
    /\ UNCHANGED climb_vars
    /\ UNCHANGED aux_vars

\* G1 extract_takeoff_data: parse_takeoff_tables(end_page, weight) after start_page;
\* each call starts with current_altitude = None
NextPage ==
    /\ family \in GroundFamilies /\ pc = "scan"
    /\ i = Len(lines) /\ page < Len(pages)
    /\ page' = page + 1
    /\ i' = 0
    /\ current_altitude' = None
    /\ UNCHANGED <<family, flap_setting, weight, pages, all_ground_run,
                   all_total_distance, pc>>
    /\ UNCHANGED climb_vars
    /\ UNCHANGED aux_vars

\* the last page of the weight is scanned
Finish ==
    /\ family \in GroundFamilies /\ pc = "scan"
    /\ i = Len(lines) /\ page = Len(pages)
    /\ pc' = "done"
    /\ UNCHANGED <<family, flap_setting, weight, pages, page, i, current_altitude,
                   all_ground_run, all_total_distance>>
    /\ UNCHANGED climb_vars
    /\ UNCHANGED aux_vars

NextGround ==
    \/ G1_parse_takeoff_tables_GndRoll
    \/ G1_parse_takeoff_tables_Total
    \/ G1_parse_landing_tables_GndRoll
    \/ G1_parse_landing_tables_Total
    \/ G2_extract_takeoff_data_GndRoll
    \/ G2_extract_takeoff_data_Total
    \/ G2_extract_landing_data_GndRoll
    \/ G2_extract_landing_data_Total
    \/ NoMatch
    \/ NextPage
    \/ Finish

SpecGround == InitGround /\ [][NextGround]_vars


---------------------------------------------------------------------------
(* Properties of the ground-run scans.                                     *)

\* the records a step appends to a table
Added(old, new) == SubSeq(new, Len(old) + 1, Len(new))

\* the step scans a line (of the current page) that the page generator printed as l
ScansLine(l) == pc = "scan" /\ i < Len(lines) /\ lines[i + 1] = l /\ i' = i + 1

\* the tokens printed on a generated row
PrintedGndRoll(n) == [k \in 1..n |-> Str(500 + 50 * k)]

PrintedTotal(n) == [k \in 1..n |-> Str(1500 + 50 * k)]

\* the printed temperature columns of a takeoff table, coldest first
TakeoffTemps ==
    <<<<"-", "2", "0">>, <<"-", "1", "0">>, <<"0">>, <<"1", "0">>, <<"2", "0">>, <<"3", "0">>, <<"4", "0">>, <<"5", "0">>>>

\* the reference-atmosphere temperature of each grid altitude as printed in a record
ReferenceTemp(a) ==
    CASE a = 0 -> <<"1", "5", ".", "0">>
      [] a = 1000 -> <<"1", "3", ".", "0", "1", "8", "8">>
      [] a = 2000 -> <<"1", "1", ".", "0", "3", "7", "6">>
      [] a = 3000 -> <<"9", ".", "0", "5", "6", "4">>
      [] a = 4000 -> <<"7", ".", "0", "7", "5", "2">>
      [] a = 5000 -> <<"5", ".", "0", "9", "4">>
      [] a = 6000 -> <<"3", ".", "1", "1", "2", "8">>
      [] a = 7000 -> <<"1", ".", "1", "3", "1", "6">>
      [] a = 8000 -> <<"-", "0", ".", "8", "4", "9", "6">>
      [] a = 9000 -> <<"-", "2", ".", "8", "3", "0", "8">>
      [] a = 10000 -> <<"-", "4", ".", "8", "1", "2">>

\* a temperature is a computed (reference-atmosphere) one when printed as a float
IsFloat(t) == \E a \in 1..Len(t) : t[a] = "."

TripleUnique(tbl) ==
    \A a, b \in 1..Len(tbl) :
        a # b => <<tbl[a][1], tbl[a][2], tbl[a][3]>> # <<tbl[b][1], tbl[b][2], tbl[b][3]>>

\* C1: within the records of one table no two records share the same
\* (weight, altitude, temperature) triple (the scans have no other outcome in
\* which a collision could be surfaced)
C1_TripleUniquePerTable == TripleUnique(all_ground_run) /\ TripleUnique(all_total_distance)


\* the altitude tokens of the grid SL, 0, 1000, ..., 10000 and the altitude each stands for
GridTokens == AltTokens \ {<<"0", "0", "0">>}

GridAltitude(alt) ==
    IF alt = SL THEN 0
    ELSE IF alt = <<"1", "0", ",", "0", "0", "0">> THEN 10000
    ELSE CHOOSE a \in {1000 * k : k \in 0..10} : Str(a) = alt

\* the nine records of a 9-token row: tokens 1..8 under -20..50, token 9 under the
\* reference-atmosphere temperature
NineRecords(wt, a) ==
    [k \in 1..9 |-> <<Str(wt), Str(a),
                      IF k <= 8 THEN TakeoffTemps[k] ELSE ReferenceTemp(a),
                      PrintedGndRoll(9)[k]>>]

\* C2: a takeoff ground-run row of exactly 9 tokens, at any grid altitude from SL to
\* 10000, yields exactly 9 records in the G1 and in the G2+ takeoff assembler: tokens
\* 1..8 under -20, -10, ..., 50 and token 9 under the reference-atmosphere temperature
\* of the altitude
C2_NineTokenRow ==
    \A alt \in GridTokens :
        (/\ family \in {"g1_takeoff", "g2_takeoff"}
         /\ pages[1] = <<GndRollLine(alt, 9)>>
         /\ (page > 1 \/ i = 1))
        => all_ground_run = NineRecords(weight, GridAltitude(alt))

C2_Witness ==
    /\ family = "g2_takeoff" /\ pc = "done"
    /\ pages[1] = <<GndRollLine(Str(8000), 9)>>
    /\ Len(all_ground_run) = 9
    /\ all_ground_run[9][3] = ReferenceTemp(8000)

\* the integer-temperature records among recs, in order
Printed(recs) == SelectSeq(recs, LAMBDA r : ~IsFloat(r[3]))

\* the records label the first tokens with the coldest temperatures, consecutively
ColdestFirst(recs, tokens) ==
    /\ Len(Printed(recs)) <= 8
    /\ \A k \in 1..Len(Printed(recs)) :
          /\ Printed(recs)[k][3] = TakeoffTemps[k]
          /\ Printed(recs)[k][4] = tokens[k]

\* C3: in a takeoff row the k-th token labelled with a printed temperature gets the
\* k-th coldest temperature of -20, -10, ..., 50, whatever the number of tokens
C3_ColdestFirst ==
    [][\A n \in 1..MaxTokens :
          /\ \A alt \in AltTokens :
                (family \in {"g1_takeoff", "g2_takeoff"} /\ ScansLine(GndRollLine(alt, n)))
                => ColdestFirst(Added(all_ground_run, all_ground_run'), PrintedGndRoll(n))
          /\ (family \in {"g1_takeoff", "g2_takeoff"} /\ ScansLine(TotalLine(n)))
                => ColdestFirst(Added(all_total_distance, all_total_distance'),
                                PrintedTotal(n))]_vars

C3_Witness ==
    /\ family = "g1_takeoff" /\ page = 1 /\ i = 1
    /\ pages[1] = <<GndRollLine(Str(10000), 4)>>
    /\ Len(Printed(all_ground_run)) = 4
    /\ all_ground_run[4][3] = <<"1", "0">>

\* C9: a ground-run anchor printed with the sea-level marker 'SL' or with the literal
\* altitude '0' yields records of altitude 0, in the takeoff and landing assemblers of
\* both extractors
C9_SeaLevelIsZero ==
    [][\A alt \in {SL, <<"0">>}, n \in 1..MaxTokens :
          (family \in GroundFamilies /\ ScansLine(GndRollLine(alt, n)))
          => LET added == Added(all_ground_run, all_ground_run')
             IN  /\ added # <<>>
                 /\ \A k \in 1..Len(added) : added[k][2] = <<"0">>]_vars

C9_Witness ==
    /\ family = "g2_landing" /\ page = 1 /\ i = 2
    /\ lines[1] = GndRollLine(SL, 2) /\ lines[2] = GndRollLine(<<"0">>, 2)
    /\ Len(all_ground_run) = 4
    /\ \A k \in 1..4 : all_ground_run[k][2] = <<"0">>

\* C10: an anchor whose altitude token is the truncated run '000' is recorded with
\* altitude 10000, and only when altitude 10000 has not already been recorded for the
\* weight; every assembler that recognises ground-run anchors applies the rule
C10_TruncatedOnlyWhenNothingElseFits ==
    [][\A n \in 1..MaxTokens :
          (family \in GroundFamilies /\ ScansLine(GndRollLine(<<"0", "0", "0">>, n)))
          => LET added == Added(all_ground_run, all_ground_run')
                 seen  == \E k \in 1..Len(all_ground_run) : all_ground_run[k][2] = Str(10000)
             IN  /\ added # <<>>
                 /\ \A k \in 1..Len(added) : (added[k][2] = Str(10000)) <=> ~seen]_vars


---------------------------------------------------------------------------
(* The climb matrices: patterns of the G1 scan                             *)
(* (AFMDataExtractor.parse_climb_gradient_tables).                         *)

\* the weight columns of a climb matrix, heaviest first
weights == <<6000, 5500, 5000, 4500>>

Minus40 == <<"-", "4", "0">>
Engine == <<"E", "n", "g", "i", "n", "e">>
Press == <<"P", "r", "e", "s", "s">>

\* the first n elements of a list: s[:n]
Prefix(s, n) == SubSeq(s, 1, Min(n, Len(s)))

\* the length of the run of digits and whitespace that follows the '-40' at the head
\* of r, when it opens with whitespace and holds one more character: -40\s+([\d\s]+);
\* 0 when r does not open so
minus40_run(r) ==
    LET r2 == From(r, 3)
    IN  IF startswith(r, Minus40) /\ r2 # <<>> /\ IsSpace(r2[1]) /\ DigitSpaceRun(r2) >= 2
        THEN DigitSpaceRun(r2)
        ELSE 0

\* re.findall(r'\d+', group(2)) for that run
minus40_values(r) == findall_digits(Slice(r, 3, 3 + minus40_run(r)))

\* re.search(r'\d+-\d+(\d{4})-40\s+([\d\s]+)', line): <<group(1), the numbers of
\* group(2)>> of the leftmost match, or None
embedded_match(l) ==
    LET d1(a)  == DigitRun(From(l, a))
        d2(a)  == DigitRun(From(l, a + d1(a) + 1))
        e(a)   == a + d1(a) + 1 + d2(a)
        hit(a) == /\ d1(a) >= 1
                  /\ a + d1(a) < Len(l) /\ l[a + d1(a) + 1] = "-"
                  /\ d2(a) >= 5
                  /\ minus40_run(From(l, e(a))) > 0
        hits   == {a \in 0..(Len(l) - 1) : hit(a)}
        a0     == CHOOSE a \in hits : \A b \in hits : a <= b
    IN  IF hits = {} THEN None
        ELSE <<Slice(l, e(a0) - 4, e(a0)), minus40_values(From(l, e(a0)))>>

\* re.search(r'^(\d{1,5})\s*-40\s+([\d\s]+)', line): <<group(1), the numbers of
\* group(2)>>, or None
standalone_match(l) ==
    LET n == DigitRun(l)
        r == lstrip(From(l, n))
    IN  IF n >= 1 /\ n <= 5 /\ minus40_run(r) > 0
        THEN <<SubSeq(l, 1, n), minus40_values(r)>>
        ELSE None

\* mutant of anchor_entry: the entry keeps the first 3 numbers
anchor_entry_three(idx, m) ==
    IF m # None /\ int(m[1]) <= 10000 /\ int(m[1]) % 1000 = 0 /\ Len(m[2]) >= 4
    THEN << <<idx, m[1], Prefix(m[2], 3)>> >>
    ELSE <<>>

\* the entry of altitude_data a match gives: the altitude is at most 10000 and a
\* multiple of 1000, and at least 4 numbers follow
anchor_entry(idx, m) ==
    IF m # None /\ int(m[1]) <= 10000 /\ int(m[1]) % 1000 = 0 /\ Len(m[2]) >= 4
    THEN << <<idx, m[1], Prefix(m[2], 4)>> >>
    ELSE <<>>

\* the first pass over the lines ls (0-based index idx onwards): every altitude anchor
\* with its line index and its -40 values, the embedded form before the standalone one
RECURSIVE find_altitude_data(_, _)
find_altitude_data(ls, idx) ==
    IF idx >= Len(ls) THEN <<>>
    ELSE anchor_entry(idx, embedded_match(ls[idx + 1]))
         \o anchor_entry(idx, standalone_match(ls[idx + 1]))
         \o find_altitude_data(ls, idx + 1)

\* a row of 0 degC whose numbers may be run together
zero_row_applies(next_line) ==
    /\ startswith(next_line, <<"0">>)
    /\ Len(next_line) > 10
    /\ (contains(Slice(next_line, 1, 5), <<" ">>) \/ ~startswith(next_line, <<"0", " ">>))

\* mutant of digit_split: a run of 15 digits is cut 4-4-4-3
digit_split_tail(altitude, remaining) ==
    IF Len(remaining) = 16 THEN <<4, 4, 4, 4>>
    ELSE IF Len(remaining) = 15 THEN <<4, 4, 4, 3>>
    ELSE IF altitude = Str(10000) /\ startswith(remaining, <<"8", "0", "9">>)
    THEN <<3, 3, 4, 4>>
    ELSE <<3, 4, 4, 3>>

\* the widths a run of 16, 15 or 14 digits is cut into
digit_split(altitude, remaining) ==
    IF Len(remaining) = 16 THEN <<4, 4, 4, 4>>
    ELSE IF Len(remaining) = 15 THEN <<3, 4, 4, 4>>
    ELSE IF altitude = Str(10000) /\ startswith(remaining, <<"8", "0", "9">>)
    THEN <<3, 3, 4, 4>>
    ELSE <<3, 4, 4, 3>>

\* s cut into consecutive pieces of the widths given
RECURSIVE cut(_, _)
cut(s, widths) ==
    IF widths = <<>> THEN <<>>
    ELSE <<Prefix(s, Head(widths))>> \o cut(From(s, Head(widths)), Tail(widths))

\* the groups remaining[c:c+4] for c in range(0, min(len(remaining), 16), 4)
\* that satisfy c + 3 < len(remaining)
four_digit_groups(remaining) ==
    LET starts == {c \in {0, 4, 8, 12} : c < Min(Len(remaining), 16) /\ c + 3 < Len(remaining)}
    IN  [g \in 1..Cardinality(starts) |-> Slice(remaining, 4 * (g - 1), 4 * g)]

\* the values guessed from a run of 12 or more digits that is not 14, 15 or 16 long
guessed_values(altitude, remaining) ==
    IF altitude \in {Str(8000), Str(9000), Str(10000)}
    THEN <<Slice(remaining, 0, 3), Slice(remaining, 3, 7), Slice(remaining, 7, 11)>>
         \o (IF Len(remaining) >= 15 THEN <<Slice(remaining, 11, 15)>> ELSE <<>>)
    ELSE four_digit_groups(remaining)

\* the values the special handling of the 0 degC row extracts from next_line
zero_row_values(next_line, altitude) ==
    LET all_digits == SelectSeq(next_line, IsDigit)
        remaining  == Tail(all_digits)
    IN  IF ~(Len(all_digits) >= 13 /\ all_digits[1] = "0") THEN <<>>
        ELSE IF Len(remaining) \in {14, 15, 16} THEN cut(remaining, digit_split(altitude, remaining))
        ELSE IF Len(remaining) >= 12 THEN guessed_values(altitude, remaining)
        ELSE <<>>

\* the temperatures of the rows of a climb matrix below the anchor
row_temps == <<-30, -20, -10, 0, 10, 20, 30, 40, 50>>

\* the least count of numbers a row of temperature temp is accepted with
min_values(altitude, temp) == IF int(altitude) >= 9000 /\ temp >= 40 THEN 3 ELSE 4

\* the numbers of next_line after the temperature label temp: temp_pattern.sub('', ..)
row_numbers(next_line, temp) == findall_digits(From(next_line, Len(Str(temp))))

\* the temperatures of row_temps whose row next_line is
normal_temps(next_line, altitude) ==
    {c \in 1..Len(row_temps) :
        /\ startswith(next_line, Str(row_temps[c]) \o <<" ">>)
        /\ Len(row_numbers(next_line, row_temps[c])) >= min_values(altitude, row_temps[c])}

\* re.match(r'^\d{2}\s+\d', next_line)
two_digit_row(next_line) ==
    /\ DigitRun(next_line) = 2
    /\ Len(lstrip(From(next_line, 2))) < Len(next_line) - 2
    /\ DigitRun(lstrip(From(next_line, 2))) >= 1

\* re.match(r'^(\d{2})\s+([\d\s]+?)(?:[A-Z]|$)', next_line) for a two_digit_row: the
\* run of digits and whitespace after the label ends the line or meets a capital
special_temp_match(next_line) ==
    LET r   == From(next_line, 2)
        run == DigitSpaceRun(r)
    IN  IF run = Len(r) THEN TRUE ELSE IsUpper(r[run + 1])

\* re.findall(r'\d+', temp_match.group(2))
special_temp_values(next_line) ==
    LET r == From(next_line, 2)
    IN  findall_digits(SubSeq(r, 1, DigitSpaceRun(r)))

\* a row of a temperature 41..50 with at least 3 numbers
special_temp_row(next_line) ==
    /\ two_digit_row(next_line)
    /\ special_temp_match(next_line)
    /\ int(Prefix(next_line, 2)) >= 41 /\ int(Prefix(next_line, 2)) <= 50
    /\ Len(special_temp_values(next_line)) >= 3

\* the line ends the rows of the anchor
ends_rows(next_line) ==
    contains(next_line, Engine) \/ contains(next_line, Press) \/ contains(next_line, Minus40)

\* the keys of the dict td in increasing order: sorted(td.items())
RECURSIVE sorted(_)
sorted(S) ==
    IF S = {} THEN <<>>
    ELSE LET lo == CHOOSE a \in S : \A b \in S : a <= b
         IN  <<lo>> \o sorted(S \ {lo})

\* the records of one temperature: a row with fewer than 4 numbers belongs to the
\* lightest weights; a value is kept when value.isdigit()
temp_records(altitude, temp, values) ==
    LET weight_offset == IF Len(values) < 4 THEN 4 - Len(values) ELSE 0
        rec(c) == <<Str(weights[c + weight_offset]), altitude, Str(temp), values[c]>>
        kept   == {c \in 1..Len(values) : c + weight_offset <= 4 /\ isdigit(values[c])}
        order  == sorted(kept)
    IN  [c \in 1..Len(order) |-> rec(order[c])]

\* the records of every temperature of td, coldest first
RECURSIVE flush(_, _, _)
flush(altitude, td, keys) ==
    IF keys = <<>> THEN <<>>
    ELSE temp_records(altitude, Head(keys), td[Head(keys)]) \o flush(altitude, td, Tail(keys))


---------------------------------------------------------------------------
(* The climb matrices: patterns of the G2+ scan                            *)
(* (G2PlusAFMDataExtractor.parse_climb_gradient_tables).                   *)

expected_altitudes == [c \in 1..11 |-> Str(1000 * (c - 1))]

Dash == <<"-">>
Of == <<"o", "f">>

\* parts[0].split('-')[1]: what stands between the first dash and the next
after_dash(s) ==
    LET r == From(s, find(s, Dash) + 1)
    IN  IF contains(r, Dash) THEN Prefix(r, find(r, Dash)) ELSE r

\* the parts an anchor of altitude alt is read from: the line that starts with
\* '<alt>-', or the rest of a line from '<alt>-' on when it also holds 'of'
G2_anchor_parts(l, alt) ==
    IF startswith(l, alt \o Dash) THEN split(l)
    ELSE IF contains(l, alt \o Dash) /\ contains(l, Of)
    THEN split(From(l, find(l, alt \o Dash)))
    ELSE <<>>

\* the positions of expected_altitudes whose anchor the line is, with 5 parts or more
G2_anchor_hits(l) ==
    {c \in 1..Len(expected_altitudes) : Len(G2_anchor_parts(l, expected_altitudes[c])) >= 5}

\* the altitude the loop over expected_altitudes breaks at: the first that fits
G2_anchor_altitude(l) ==
    expected_altitudes[CHOOSE c \in G2_anchor_hits(l) : \A b \in G2_anchor_hits(l) : c <= b]

\* the records of an anchor: the temperature is '-' and what follows the dash
G2_anchor_records(l) ==
    LET alt   == G2_anchor_altitude(l)
        parts == G2_anchor_parts(l, alt)
    IN  [c \in 1..4 |-> <<Str(weights[c]), alt, Dash \o after_dash(parts[1]), parts[c + 1]>>]

\* any(line.startswith(f"{alt}-") or f"{alt}-" in line for alt in expected_altitudes)
mentions_altitude(l) ==
    \E c \in 1..Len(expected_altitudes) : contains(l, expected_altitudes[c] \o Dash)

\* the numbers of (\s+(\d+)){n} at the head of s, as many as are there
RECURSIVE spaced_numbers(_, _)
spaced_numbers(s, n) ==
    LET r == lstrip(s)
        d == DigitRun(r)
    IN  IF n = 0 \/ Len(r) = Len(s) \/ d = 0 THEN <<>>
        ELSE <<Prefix(r, d)>> \o spaced_numbers(From(r, d), n - 1)

\* the length of group(1) of re.match(r'^(-?\d+)\s+(\d+)\s+(\d+)\s+(\d+)\s+(\d+)', line);
\* 0 when the line does not match
temp_label_len(l) ==
    LET sign == IF startswith(l, Dash) THEN 1 ELSE 0
        d    == DigitRun(From(l, sign))
    IN  IF d >= 1 /\ Len(spaced_numbers(From(l, sign + d), 4)) = 4 THEN sign + d ELSE 0

\* the records of a temperature row under altitude
G2_row_records(l, altitude) ==
    LET values == spaced_numbers(From(l, temp_label_len(l)), 4)
    IN  [c \in 1..4 |-> <<Str(weights[c]), altitude, Prefix(l, temp_label_len(l)), values[c]>>]

\* page 9: the records of a line that starts with '0-' and has 5 parts or more
G2_page9_records(l) ==
    LET parts == split(l)
    IN  [c \in 1..4 |-> <<Str(weights[c]), Str(0), Tail(parts[1]), parts[c + 1]>>]


---------------------------------------------------------------------------
(* The pages the climb scans are run on.                                   *)

\* the four values printed on an anchor line
AnchorValues == <<Str(1232), Str(1301), Str(1378), Str(1455)>>

\* '<alt>-40 1232 1301 1378 1455', the clean form of an anchor
CleanAnchor(alt) == alt \o Minus40 \o <<" ">> \o join(AnchorValues)

\* '5-27<alt>-40 ...': the anchor run together with a section page number
SectionAnchor(alt) == <<"5", "-", "2", "7">> \o CleanAnchor(alt)

\* '11 of 46<alt>-40 ...': the anchor run together with a page count
PageCountAnchor(alt) == <<"1", "1", " ", "o", "f", " ", "4", "6">> \o CleanAnchor(alt)

\* '<temp> v1 ... vn', a temperature row with n values
TempRowLine(temp, n) == Str(temp) \o <<" ">> \o join(RowValues(1000 + temp, n))

\* a row of 0 degC printed without spaces: the label and n - 1 digits
ZeroRun(n) == [c \in 1..n |-> IF c = 1 THEN "0" ELSE DigitChar(((c + 6) % 9) + 1)]

\* '080996211371343', the 0 degC row of 10000 ft printed without spaces
ZeroRun809 == <<"0", "8", "0", "9", "9", "6", "2", "1", "1", "3", "7", "1", "3", "4", "3">>

\* '43 321 436 567Engine Anti-Ice', a row run together with the text that follows it
SpecialTempLine == <<"4", "3", " ", "3", "2", "1", " ", "4", "3", "6", " ", "5", "6", "7", "E", "n", "g", "i", "n", "e", " ", "A", "n", "t", "i", "-", "I", "c", "e">>

EngineLine == <<"E", "n", "g", "i", "n", "e", " ", "A", "n", "t", "i", "-", "I", "c", "e", " ", "O", "n">>

WeightLine == <<"W", "e", "i", "g", "h", "t">>

\* the lines printed below an anchor
RowLines ==
    {TempRowLine(temp, 4) : temp \in {-30, 0, 20, 40}}
    \cup {TempRowLine(temp, 3) : temp \in {20, 40, 50}}
    \cup {ZeroRun(n) : n \in 12..MaxDigits}
    \cup {ZeroRun809, SpecialTempLine, EngineLine, TextLine, WeightLine, <<>>}

\* the altitude tokens of the anchors
ClimbAltTokens == {Str(1000 * c) : c \in 0..10} \cup {<<"1", "0", ",", "0", "0", "0">>}

\* every form of an anchor of the altitudes above sea level
AnchorLines ==
    UNION {{CleanAnchor(alt), SectionAnchor(alt), PageCountAnchor(alt)} :
           alt \in ClimbAltTokens \ {Str(0)}}

\* the first page of a climb matrix: it holds sea level only
FirstPages ==
    {<< <<>> >>,
     <<CleanAnchor(Str(0)), TempRowLine(-30, 4)>>,
     <<SectionAnchor(Str(0)), TempRowLine(-30, 4)>>,
     <<PageCountAnchor(Str(0)), TempRowLine(-30, 4)>>}

\* the lines that fill the other rows of the pages that vary the rows
CoreRowLines ==
    {TempRowLine(0, 4), TempRowLine(20, 4), TempRowLine(40, 3), ZeroRun(14), ZeroRun809,
     SpecialTempLine, EngineLine, WeightLine}

\* the rows below the anchor of a page: one line of RowLines, before or after up to
\* MaxRows - 1 lines of CoreRowLines
RowSeqs ==
    LET rest == UNION {[1..n -> CoreRowLines] : n \in 0..(MaxRows - 1)}
    IN  {<<r>> \o t : r \in RowLines, t \in rest} \cup {t \o <<r>> : r \in RowLines, t \in rest}

\* pages that vary the rows below one anchor
RowsPages ==
    {<<CleanAnchor(alt)>> \o rows : alt \in {Str(5000), Str(10000)}, rows \in RowSeqs}

\* pages that vary the anchor above one row
AnchorPages == {<<a, TempRowLine(-30, 4)>> : a \in AnchorLines}

\* '<temp> w1 w2 w3 w4', a second printing of a temperature row with other values
OtherRowLine(temp) == Str(temp) \o <<" ">> \o join(RowValues(2000 + temp, 4))

\* pages on which a temperature is printed twice below one anchor
DuplicatePages ==
    {<<CleanAnchor(alt), TempRowLine(20, 4), OtherRowLine(20), TempRowLine(40, 4)>> :
        alt \in {Str(5000), Str(10000)}}

\* the number of lines the collection loop of G1 looks at below an anchor: j = 1 .. 14
WindowLines == 14

\* a page with more temperature rows below one anchor than the loop looks at
LongPage ==
    <<CleanAnchor(Str(5000))>> \o [c \in 1..WindowLines |-> TempRowLine(20, 4)]
    \o <<TempRowLine(40, 4)>>

\* a page range whose last page opens with a row of the anchor of the page before
ContinuationPages ==
    << << <<>> >>,
       <<CleanAnchor(Str(8000)), TempRowLine(20, 4)>>,
       <<TempRowLine(40, 4), CleanAnchor(Str(9000)), TempRowLine(40, 3)>> >>

\* the temperatures of a climb table
ClimbTemps == -40..50

\* pages with a row whose leading integer is no temperature of a climb table
OutOfRangePages ==
    {<<CleanAnchor(Str(5000)), TempRowLine(temp, 4), TempRowLine(20, 4)>> : temp \in {-50, 60}}

\* the page lists scanned: the sea-level page, then the pages of the higher altitudes
ClimbPages ==
    {<< << <<>> >>, p>> :
        p \in RowsPages \cup DuplicatePages \cup {LongPage} \cup OutOfRangePages}
    \cup {<< <<CleanAnchor(Str(0)), TempRowLine(60, 4)>>, << <<>> >> >>}
    \cup {<<p1, p2>> : p1 \in FirstPages, p2 \in AnchorPages}
    \cup {ContinuationPages}

ClimbFamilies == {"g1_climb", "g2_climb"}

InitClimb ==
    /\ family \in ClimbFamilies
    /\ flap_setting = ""
    /\ weight = 6000
    /\ pages \in ClimbPages
    /\ page = 1
    /\ i = 0
    /\ current_altitude = None
    /\ all_ground_run = <<>>
    /\ all_total_distance = <<>>
    /\ pc = IF family = "g1_climb" THEN "find" ELSE "scan"
    /\ climb_data = <<>>
    /\ altitude_data = <<>>
    /\ processed_lines = {}
    /\ anchor = 0
    /\ j = 0
    /\ temp_data = <<>>
    /\ IdleAux


---------------------------------------------------------------------------
(* The G1 climb scan: the anchors are found first, then the rows below     *)
(* each anchor are collected, one step per line.                           *)

\* text.replace('10,000', '10000') on every line of a page
RECURSIVE replace_10000(_)
replace_10000(ls) ==
    IF ls = <<>> THEN <<>>
    ELSE <<replace(Head(ls), <<"1", "0", ",", "0", "0", "0">>, Str(10000))>>
         \o replace_10000(Tail(ls))

\* all_text.split('\n'): the lines of every page, and the empty line after the last "\n"
RECURSIVE all_text_lines(_)
all_text_lines(ps) ==
    IF ps = <<>> THEN << <<>> >>
    ELSE replace_10000(Head(ps)) \o all_text_lines(Tail(ps))

climb_lines == all_text_lines(pages)

\* the entry of altitude_data the anchor loop is at
line_idx == altitude_data[anchor][1]
altitude == altitude_data[anchor][2]
initial_values == altitude_data[anchor][3]

\* mutant of InWindow: the loop has no bound on the offset
InWindow_to_end == line_idx + j < Len(climb_lines)

\* while j < 15 and line_idx + j < len(lines)
InWindow == j < 15 /\ line_idx + j < Len(climb_lines)

next_line == strip(climb_lines[line_idx + j + 1])

\* the dict td with td[temp] = values
put(td, temp, values) ==
    [c \in DOMAIN td \cup {temp} |-> IF c = temp THEN values ELSE td[c]]

\* mutant of consumed: the set of consumed lines is not looked at
consumed_never(idx, done_lines) == FALSE

\* if line_idx in processed_lines / if line_idx + j in processed_lines
consumed(idx, done_lines) == idx \in done_lines

\* the line at offset j is examined: it was not consumed by an earlier anchor
Examined == pc = "collect" /\ InWindow /\ ~consumed(line_idx + j, processed_lines)

\* the 0 degC handling accepts next_line
ZeroRowAccepted ==
    zero_row_applies(next_line) /\ Len(zero_row_values(next_line, altitude)) >= 3

G1_climb_unchanged == UNCHANGED <<family, flap_setting, weight, pages, page, i,
                                  current_altitude, all_ground_run, all_total_distance>>

\* lines 436-465: the first pass
G1_find_altitude_data ==
    /\ family = "g1_climb" /\ pc = "find"
    /\ altitude_data' = find_altitude_data(climb_lines, 0)
    /\ anchor' = 1
    /\ pc' = "anchor"
    /\ UNCHANGED <<climb_data, processed_lines, j, temp_data>>
    /\ G1_climb_unchanged
    /\ UNCHANGED aux_vars

\* lines 469-477: the next anchor; one whose line was consumed as a row is passed over
G1_next_anchor ==
    /\ family = "g1_climb" /\ pc = "anchor"
    /\ anchor <= Len(altitude_data)
    /\ IF consumed(line_idx, processed_lines)
       THEN /\ anchor' = anchor + 1
            /\ UNCHANGED <<temp_data, j, pc>>
       ELSE /\ temp_data' = (-40 :> initial_values)
            /\ j' = 1
            /\ pc' = "collect"
            /\ UNCHANGED anchor
    /\ UNCHANGED <<climb_data, altitude_data, processed_lines>>
    /\ G1_climb_unchanged
    /\ UNCHANGED aux_vars

\* lines 487-530: the row of 0 degC, possibly run together
G1_zero_row ==
    /\ family = "g1_climb" /\ Examined
    /\ ZeroRowAccepted
    /\ temp_data' = put(temp_data, 0, Prefix(zero_row_values(next_line, altitude), 4))
    /\ processed_lines' = processed_lines \cup {line_idx + j}
    /\ j' = j + 1
    /\ UNCHANGED <<climb_data, altitude_data, anchor, pc>>
    /\ G1_climb_unchanged
    /\ UNCHANGED aux_vars

\* lines 533-543: a row of one of the temperatures -30..50
G1_temp_row ==
    /\ family = "g1_climb" /\ Examined
    /\ ~ZeroRowAccepted
    /\ normal_temps(next_line, altitude) # {}
    /\ LET temp == row_temps[CHOOSE c \in normal_temps(next_line, altitude) : TRUE]
       IN  temp_data' = put(temp_data, temp, Prefix(row_numbers(next_line, temp), 4))
    /\ processed_lines' = processed_lines \cup {line_idx + j}
    /\ j' = j + 1
    /\ UNCHANGED <<climb_data, altitude_data, anchor, pc>>
    /\ G1_climb_unchanged
    /\ UNCHANGED aux_vars

\* lines 546-558: a row of a temperature 41..50
G1_special_temp_row ==
    /\ family = "g1_climb" /\ Examined
    /\ ~ZeroRowAccepted
    /\ normal_temps(next_line, altitude) = {}
    /\ special_temp_row(next_line)
    /\ temp_data' = put(temp_data, int(Prefix(next_line, 2)),
                        Prefix(special_temp_values(next_line), 4))
    /\ processed_lines' = processed_lines \cup {line_idx + j}
    /\ j' = j + 1
    /\ UNCHANGED <<climb_data, altitude_data, anchor, pc>>
    /\ G1_climb_unchanged
    /\ UNCHANGED aux_vars

\* no row is read from the line at offset j
NoRow ==
    /\ ~ZeroRowAccepted
    /\ normal_temps(next_line, altitude) = {}
    /\ ~special_temp_row(next_line)

\* lines 480-482 and 566: a line consumed before, or one that is no row and does not
\* end the rows
G1_skip_line ==
    /\ family = "g1_climb" /\ pc = "collect" /\ InWindow
    /\ \/ consumed(line_idx + j, processed_lines)
       \/ Examined /\ NoRow /\ ~ends_rows(next_line)
    /\ j' = j + 1
    /\ UNCHANGED <<climb_data, altitude_data, processed_lines, anchor, temp_data, pc>>
    /\ G1_climb_unchanged
    /\ UNCHANGED aux_vars

\* lines 564-582: the window ends, or a line that is no row ends the rows; the records
\* of the anchor are appended
G1_add_data ==
    /\ family = "g1_climb" /\ pc = "collect"
    /\ \/ ~InWindow
       \/ Examined /\ NoRow /\ ends_rows(next_line)
    /\ climb_data' = climb_data \o flush(altitude, temp_data, sorted(DOMAIN temp_data))
    /\ anchor' = anchor + 1
    /\ pc' = "anchor"
    /\ UNCHANGED <<altitude_data, processed_lines, j, temp_data>>
    /\ G1_climb_unchanged
    /\ UNCHANGED aux_vars

\* line 584: return data
G1_return ==
    /\ family = "g1_climb" /\ pc = "anchor"
    /\ anchor > Len(altitude_data)
    /\ pc' = "done"
    /\ UNCHANGED climb_vars
    /\ G1_climb_unchanged
    /\ UNCHANGED aux_vars


---------------------------------------------------------------------------
(* The G2+ climb scan, one step per line: the first page is PDF page 9,    *)
(* the pages after it are PDF pages 10..14.                                *)

G2_climb_scanning == family = "g2_climb" /\ pc = "scan" /\ i < Len(lines)

G2_climb_unchanged == UNCHANGED <<family, flap_setting, weight, pages, page, pc,
                                  all_ground_run, all_total_distance, altitude_data,
                                  processed_lines, anchor, j, temp_data>>

\* lines 311-318: page 9, a line that starts with '0-'
G2_page9_anchor ==
    /\ G2_climb_scanning /\ page = 1
    /\ startswith(G2_line(i), <<"0", "-">>)
    /\ Len(split(G2_line(i))) >= 5
    /\ climb_data' = climb_data \o G2_page9_records(G2_line(i))
    /\ i' = i + 1
    /\ UNCHANGED current_altitude
    /\ G2_climb_unchanged
    /\ UNCHANGED aux_vars

\* lines 319-328: page 9, a temperature row
G2_page9_row ==
    /\ G2_climb_scanning /\ page = 1
    /\ ~startswith(G2_line(i), <<"0", "-">>)
    /\ temp_label_len(G2_line(i)) > 0
    /\ climb_data' = climb_data \o G2_row_records(G2_line(i), Str(0))
    /\ i' = i + 1
    /\ UNCHANGED current_altitude
    /\ G2_climb_unchanged
    /\ UNCHANGED aux_vars

\* lines 347-374: pages 10-14, an altitude anchor
G2_anchor ==
    /\ G2_climb_scanning /\ page > 1
    /\ G2_anchor_hits(G2_line(i)) # {}
    /\ current_altitude' = G2_anchor_altitude(G2_line(i))
    /\ climb_data' = climb_data \o G2_anchor_records(G2_line(i))
    /\ i' = i + 1
    /\ G2_climb_unchanged
    /\ UNCHANGED aux_vars

\* the line is read as a temperature row of current_altitude
G2_is_row ==
    /\ current_altitude # None
    /\ ~mentions_altitude(G2_line(i))
    /\ temp_label_len(G2_line(i)) > 0

\* lines 377-385: pages 10-14, a temperature row
G2_row ==
    /\ G2_climb_scanning /\ page > 1
    /\ G2_anchor_hits(G2_line(i)) = {}
    /\ G2_is_row
    /\ climb_data' = climb_data \o G2_row_records(G2_line(i), current_altitude)
    /\ i' = i + 1
    /\ UNCHANGED current_altitude
    /\ G2_climb_unchanged
    /\ UNCHANGED aux_vars

\* a line nothing is read from
\* mutant of G2_climb_no_match: a line that matches nothing clears the altitude context
G2_climb_no_match_clears ==
    /\ G2_climb_scanning
    /\ IF page = 1
       THEN IF startswith(G2_line(i), <<"0", "-">>)
            THEN Len(split(G2_line(i))) < 5
            ELSE temp_label_len(G2_line(i)) = 0
       ELSE G2_anchor_hits(G2_line(i)) = {} /\ ~G2_is_row
    /\ i' = i + 1
    /\ current_altitude' = None
    /\ UNCHANGED climb_data
    /\ G2_climb_unchanged
    /\ UNCHANGED aux_vars

G2_climb_no_match ==
    /\ G2_climb_scanning
    /\ IF page = 1
       THEN IF startswith(G2_line(i), <<"0", "-">>)
            THEN Len(split(G2_line(i))) < 5
            ELSE temp_label_len(G2_line(i)) = 0
       ELSE G2_anchor_hits(G2_line(i)) = {} /\ ~G2_is_row
    /\ i' = i + 1
    /\ UNCHANGED <<current_altitude, climb_data>>
    /\ G2_climb_unchanged
    /\ UNCHANGED aux_vars

\* lines 331-341: the next page, with current_altitude = None
G2_climb_next_page ==
    /\ family = "g2_climb" /\ pc = "scan"
    /\ i = Len(lines) /\ page < Len(pages)
    /\ page' = page + 1
    /\ i' = 0
    /\ current_altitude' = None
    /\ UNCHANGED <<family, flap_setting, weight, pages, pc, all_ground_run,
                   all_total_distance>>
    /\ UNCHANGED climb_vars
    /\ UNCHANGED aux_vars

\* line 387: return data
G2_climb_return ==
    /\ family = "g2_climb" /\ pc = "scan"
    /\ i = Len(lines) /\ page = Len(pages)
    /\ pc' = "done"
    /\ UNCHANGED <<family, flap_setting, weight, pages, page, i, current_altitude,
                   all_ground_run, all_total_distance>>
    /\ UNCHANGED climb_vars
    /\ UNCHANGED aux_vars

NextClimb ==
    \/ G1_find_altitude_data
    \/ G1_next_anchor
    \/ G1_zero_row
    \/ G1_temp_row
    \/ G1_special_temp_row
    \/ G1_skip_line
    \/ G1_add_data
    \/ G1_return
    \/ G2_page9_anchor
    \/ G2_page9_row
    \/ G2_anchor
    \/ G2_row
    \/ G2_climb_no_match
    \/ G2_climb_next_page
    \/ G2_climb_return

SpecClimb == InitClimb /\ [][NextClimb]_vars


---------------------------------------------------------------------------
(* Properties of the climb scans.                                          *)

\* the altitudes a climb matrix is printed for
ClimbAltitudes == {Str(1000 * c) : c \in 0..10}

\* the four records the printed anchor of altitude alt stands for
AnchorRecords(alt) ==
    << <<Str(6000), alt, Minus40, Str(1232)>>, <<Str(5500), alt, Minus40, Str(1301)>>,
       <<Str(5000), alt, Minus40, Str(1378)>>, <<Str(4500), alt, Minus40, Str(1455)>> >>

\* the three records the printed row of temperature temp with 3 values stands for
ShortRowRecords(alt, temp) ==
    << <<Str(5500), alt, Str(temp), Str(1050 + temp)>>,
       <<Str(5000), alt, Str(temp), Str(1100 + temp)>>,
       <<Str(4500), alt, Str(temp), Str(1150 + temp)>> >>

\* this step of the G2+ scan reads the line l
G2_reads(l) ==
    /\ family = "g2_climb" /\ pc = "scan" /\ i < Len(lines) /\ i' = i + 1
    /\ G2_line(i) = l

\* this step of the G1 scan examines the line l below an anchor
G1_examines(l) ==
    /\ family = "g1_climb" /\ Examined /\ j' = j + 1
    /\ next_line = l

\* this step of the G1 scan appends the records of an anchor
G1_adds == family = "g1_climb" /\ pc = "collect" /\ pc' = "anchor"

\* this step of the G1 scan returns the table of a text that holds the line l
G1_returns_over(l) ==
    /\ family = "g1_climb" /\ pc = "anchor" /\ pc' = "done"
    /\ \E a \in 1..Len(climb_lines) : climb_lines[a] = l

\* the records of a list at a given altitude and temperature
RecordsAt(recs, alt, temp) == SelectSeq(recs, LAMBDA r : r[2] = alt /\ r[3] = temp)

\* the records of a list at a given temperature
RecordsOf(recs, temp) == SelectSeq(recs, LAMBDA r : r[3] = temp)

C5_NoiseAnchor ==
    [][\A alt \in ClimbAltitudes :
          \A noisy \in {SectionAnchor(alt), PageCountAnchor(alt)} :
              /\ G2_reads(noisy)
                 => Added(climb_data, climb_data') = AnchorRecords(alt)
              /\ G1_returns_over(noisy)
                 => RecordsAt(climb_data, alt, Minus40) = AnchorRecords(alt)]_vars

\* C6: a temperature row with 3 values gives exactly 3 records, for the weights 5500,
\* 5000 and 4500, and none for 6000, at every altitude and every temperature: the G2+
\* step that reads the row below an anchor appends exactly these records; the G1 step
\* that examines the row keeps its 3 values, and the G1 step that appends the records
\* of the anchor appends exactly these records for every temperature with 3 values
C6_ThreeValueRow ==
    [][\A temp \in {20, 40, 50} :
          /\ (G2_reads(TempRowLine(temp, 3)) /\ page > 1 /\ current_altitude # None)
             => Added(climb_data, climb_data') = ShortRowRecords(current_altitude, temp)
          /\ G1_examines(TempRowLine(temp, 3))
             => /\ temp \in DOMAIN temp_data'
                /\ temp_data'[temp] = RowValues(1000 + temp, 3)
          /\ (G1_adds /\ temp \in DOMAIN temp_data /\ temp_data[temp] = RowValues(1000 + temp, 3))
             => RecordsOf(Added(climb_data, climb_data'), Str(temp))
                = ShortRowRecords(altitude, temp)]_vars

\* the widths a run of 14, 15 or 16 digits is said to be cut into
KnownWidths(alt, run) ==
    CASE Len(run) = 16 -> <<4, 4, 4, 4>>
      [] Len(run) = 15 -> <<3, 4, 4, 4>>
      [] Len(run) = 14 /\ alt = Str(10000) /\ SubSeq(run, 1, 3) = <<"8", "0", "9">> -> <<3, 3, 4, 4>>
      [] OTHER -> <<3, 4, 4, 3>>

\* the four pieces of run of the widths w
Pieces(run, w) ==
    <<SubSeq(run, 1, w[1]),
      SubSeq(run, w[1] + 1, w[1] + w[2]),
      SubSeq(run, w[1] + w[2] + 1, w[1] + w[2] + w[3]),
      SubSeq(run, w[1] + w[2] + w[3] + 1, w[1] + w[2] + w[3] + w[4])>>

\* the rows of 0 degC printed without spaces whose run has 14, 15 or 16 digits
KnownZeroRuns == {ZeroRun(15), ZeroRun(16), ZeroRun(17), ZeroRun809}

\* C7: a 0 degC row printed without spaces is cut [4,4,4,4] when its run has 16 digits,
\* [3,4,4,4] when it has 15, [3,3,4,4] when it has 14, begins '809' and the altitude is
\* 10000, and [3,4,4,3] for any other run of 14; the four pieces are recorded for the
\* weights 6000, 5500, 5000, 4500 in order at temperature 0
C7_ConcatenatedZeroRow ==
    [][/\ \A l \in KnownZeroRuns :
            G1_examines(l)
            => /\ 0 \in DOMAIN temp_data'
               /\ temp_data'[0] = Pieces(Tail(l), KnownWidths(altitude, Tail(l)))
       /\ (G1_adds /\ 0 \in DOMAIN temp_data /\ Len(temp_data[0]) = 4)
          => RecordsOf(Added(climb_data, climb_data'), Str(0))
             = << <<Str(6000), altitude, Str(0), temp_data[0][1]>>,
                  <<Str(5500), altitude, Str(0), temp_data[0][2]>>,
                  <<Str(5000), altitude, Str(0), temp_data[0][3]>>,
                  <<Str(4500), altitude, Str(0), temp_data[0][4]>> >>]_vars

C7_Witness ==
    /\ family = "g1_climb" /\ pc = "done"
    /\ pages[2] = <<CleanAnchor(Str(10000)), ZeroRun809>>
    /\ RecordsAt(climb_data, Str(10000), Str(0))
       = << <<Str(6000), Str(10000), Str(0), Str(809)>>,
            <<Str(5500), Str(10000), Str(0), Str(962)>>,
            <<Str(5000), Str(10000), Str(0), Str(1137)>>,
            <<Str(4500), Str(10000), Str(0), Str(1343)>> >>

\* C8: a 0 degC row printed without spaces whose run (after the label '0') is not 14,
\* 15 or 16 digits long gives no record: the step that examines it records nothing
\* for temperature 0
C8_UnknownLengthEmitsNothing ==
    [][\A n \in 12..MaxDigits :
          (n - 1 \notin {14, 15, 16} /\ G1_examines(ZeroRun(n)))
          => temp_data' = temp_data]_vars


---------------------------------------------------------------------------
(* The reference-atmosphere resolvers called on their own.                 *)

\* the altitudes the resolvers are called with: 0, 100, ..., 100 * MaxHundreds
MaxHundreds == 120

\* G2+: isa_values of G2PlusAFMDataExtractor.calculate_isa_temp
G2_isa_values ==
    [a \in {0, 1000, 2000, 3000, 4000, 5000, 6000, 7000, 8000, 9000, 10000} |->
        CASE a = 0     -> 1500000
          [] a = 1000  -> 1301880
          [] a = 2000  -> 1103760
          [] a = 3000  -> 905640
          [] a = 4000  -> 707520
          [] a = 5000  -> 509400
          [] a = 6000  -> 311280
          [] a = 7000  -> 113160
          [] a = 8000  -> -84960
          [] a = 9000  -> -283080
          [] a = 10000 -> -481200]

\* G2+: isa_values.get(altitude, 15.0 - (altitude / 1000.0 * self.isa_lapse_rate))
G2_calculate_isa_temp(alt_int) ==
    IF alt_int \in DOMAIN G2_isa_values THEN G2_isa_values[alt_int]
    ELSE 1500000 - alt_int * 198

\* no table is being extracted
IdleExtract ==
    /\ family = "none"
    /\ flap_setting = ""
    /\ weight = 6000
    /\ pages = <<>>
    /\ page = 1
    /\ i = 0
    /\ current_altitude = None
    /\ all_ground_run = <<>>
    /\ all_total_distance = <<>>
    /\ pc = "done"
    /\ climb_data = <<>>
    /\ altitude_data = <<>>
    /\ processed_lines = {}
    /\ anchor = 0
    /\ j = 0
    /\ temp_data = <<>>

\* the most feet above or below a grid altitude the resolver is called with
MaxFeet == 7

\* the altitudes the resolver is called with: every hundred feet, and the integers
\* next to the grid altitudes 0, 1000, ..., 11000
IsaAltitudes ==
    {100 * c : c \in 0..MaxHundreds}
    \cup {a \in {1000 * k + d : k \in 0..11, d \in (-MaxFeet)..MaxFeet} : a >= 0}

InitIsa ==
    /\ IdleExtract
    /\ isa_altitude \in IsaAltitudes
    /\ isa_temp_g1 = <<>>
    /\ isa_temp_g2 = <<>>
    /\ runs = <<>>
    /\ first_run = <<>>
    /\ pdf_exists = TRUE
    /\ exit_status = <<>>
    /\ files = {}
    /\ vref_data = <<>>

\* AFMDataExtractor.calculate_isa_temp(isa_altitude)
G1_isa_call ==
    /\ family = "none" /\ isa_temp_g1 = <<>>
    /\ isa_temp_g1' = <<calculate_isa_temp(isa_altitude)>>
    /\ UNCHANGED <<isa_altitude, isa_temp_g2, runs, first_run, vref_data>>
    /\ UNCHANGED main_vars
    /\ UNCHANGED extract_vars

\* G2PlusAFMDataExtractor.calculate_isa_temp(isa_altitude)
G2_isa_call ==
    /\ family = "none" /\ isa_temp_g2 = <<>>
    /\ isa_temp_g2' = <<G2_calculate_isa_temp(isa_altitude)>>
    /\ UNCHANGED <<isa_altitude, isa_temp_g1, runs, first_run, vref_data>>
    /\ UNCHANGED main_vars
    /\ UNCHANGED extract_vars

NextIsa ==
    \/ G1_isa_call
    \/ G2_isa_call

SpecIsa == InitIsa /\ [][NextIsa]_vars

\* the grid values of the reference temperature, in 0.0001 degC, for 0, 1000, ..., 10000
GridTenThousandths ==
    <<150000, 130188, 110376, 90564, 70752, 50940, 31128, 11316, -8496, -28308, -48120>>

\* the reference temperature said for an altitude, in 0.00001 degC
SaidIsaTemp(a) ==
    IF a % 1000 = 0 /\ a \div 1000 <= 10
    THEN 10 * GridTenThousandths[(a \div 1000) + 1]
    ELSE 1500000 - (a * 1980) \div 10

\* C11: calculate_isa_temp returns a value for every altitude: the fixed grid value
\* (15.0, 13.0188, ..., -4.812) at 0, 1000, ..., 10000 and 15.0 - (altitude/1000) x 1.98
\* at every other altitude, and the G1 and the G2+ resolver return the same value
C11_IsaTotalAndEqual ==
    /\ isa_temp_g1 # <<>> => isa_temp_g1 = <<SaidIsaTemp(isa_altitude)>>
    /\ isa_temp_g2 # <<>> => isa_temp_g2 = <<SaidIsaTemp(isa_altitude)>>
    /\ (isa_temp_g1 # <<>> /\ isa_temp_g2 # <<>>) => isa_temp_g1 = isa_temp_g2

C11_Witness ==
    /\ isa_altitude = 9000
    /\ isa_temp_g1 = <<-283080>>
    /\ isa_temp_g2 = <<-283080>>


---------------------------------------------------------------------------
(* Further properties of the climb scans.                                  *)

\* C12: while the rows of one altitude are collected, a row whose temperature is
\* already recorded for that altitude is skipped: the step that examines it leaves
\* what is recorded as it is (the values recorded first are emitted, once) and the
\* collection goes on
C12_DuplicateRowSkipped ==
    [][\A temp \in {-30, 20, 40} :
          \A l \in {TempRowLine(temp, 4), OtherRowLine(temp)} :
              /\ (G1_examines(l) /\ temp \in DOMAIN temp_data)
                 => temp_data' = temp_data /\ pc' = "collect"
              /\ (G2_reads(l) /\ page > 1 /\ current_altitude # None
                  /\ RecordsAt(climb_data, current_altitude, Str(temp)) # <<>>)
                 => climb_data' = climb_data /\ current_altitude' = current_altitude]_vars

\* the lines below the anchor that the G1 loop passed without reading a row from them
GraceUsed == Cardinality({q \in 1..(j - 1) : line_idx + q \notin processed_lines})

\* the text ends at offset j
TextEnded == line_idx + j >= Len(climb_lines)

\* the line at offset j holds the mark of an altitude anchor
AtNextAnchor == IF InWindow THEN contains(next_line, Minus40) ELSE FALSE

\* C13: the collection below an anchor of the G1 scan ends only when the lines that are
\* neither a temperature row nor an anchor have used up the allowance, when a new anchor
\* is met or when the text of the page range ends; a matched temperature row uses no
\* allowance and a single line holding 'Engine' or 'Press' does not end the collection
C13_GraceEndsCollection ==
    [][G1_adds => (GraceUsed >= WindowLines \/ AtNextAnchor \/ TextEnded)]_vars


\* C15: every record of a climb table carries an integer temperature of -40 .. 50; a
\* line whose leading signed integer lies outside is never taken as a temperature row
C15_ClimbTempInDomain ==
    \A k \in 1..Len(climb_data) : climb_data[k][3] \in {Str(temp) : temp \in ClimbTemps}


\* C16: the altitude context lasts over the page boundaries of one page range: a
\* temperature row that opens a later page, above every anchor of that page, is
\* recorded at the altitude of the last anchor of the page before
C16_ContextAcrossPages ==
    (pc = "done" /\ family \in ClimbFamilies /\ pages = ContinuationPages)
    => RecordsAt(climb_data, Str(8000), Str(40)) # <<>>


---------------------------------------------------------------------------
(* Further properties of the ground-run scans.                             *)

\* the longest lookback of the code: range(i-1, max(0, i-5), -1) of the G2+ takeoff scan
LookbackLines == 4

\* a ground-run anchor is printed at most LookbackLines lines above the line scanned
AnchorNear ==
    \E b \in 1..LookbackLines : i - b >= 0 /\ contains(lines[i - b + 1], GndRoll)

\* C14: a Total row yields records only when a ground-run anchor lies within the short
\* lookback window above it; a Total row farther from the last anchor yields none; in
\* the takeoff and landing scans of both extractors
C14_TotalNeedsNearAnchor ==
    [][(ScansLine(TotalLine(2)) /\ Added(all_total_distance, all_total_distance') # <<>>)
       => AnchorNear]_vars


\* the set of the records of a list
RecordSet(t) == {t[k] : k \in 1..Len(t)}

\* the landing scan of the ice configuration
IceRun == family = "g1_landing" /\ flap_setting = "50 ice"

\* the records of both tables of the scan
GroundRecords == RecordSet(all_ground_run) \cup RecordSet(all_total_distance)

\* the temperatures printed above the columns of the ice tables
IceTemps == {-20, -10, 0, 10}

\* C18: in the ice landing configuration no record of the reference atmosphere is
\* emitted: every record carries one of the printed integer temperatures of the
\* configuration, whatever the number of tokens of the row
C18_IceNoReferenceRecord ==
    IceRun => \A r \in GroundRecords :
                 ~IsFloat(r[3]) /\ r[3] \in {Str(temp) : temp \in IceTemps}

C18_Witness ==
    /\ IceRun /\ pc = "done"
    /\ pages = << <<GndRollLine(Str(1000), MaxTokens)>> >>
    /\ Len(all_ground_run) = 4

\* int(t) of a Python str of digits with an optional sign
SignedInt(t) == IF Head(t) = "-" THEN -int(Tail(t)) ELSE int(t)

---------------------------------------------------------------------------
(* Running an assembler again, after itself or after another assembler.    *)

\* what a run leaves in current_altitude if the scan did not assign it on entry
entry_altitude_kept(left) == left

\* current_altitude = None on entry of a scan; the argument is what the run before left
entry_altitude(left) == None

\* the lists an assembler returns
Tables == <<all_ground_run, all_total_distance, climb_data>>

\* an assembler is entered: its lists and locals are created anew
Enter(f, flap, wt, ps) ==
    /\ family' = f
    /\ flap_setting' = flap
    /\ weight' = wt
    /\ pages' = ps
    /\ page' = 1
    /\ i' = 0
    /\ current_altitude' = entry_altitude(current_altitude)
    /\ all_ground_run' = <<>>
    /\ all_total_distance' = <<>>
    /\ pc' = IF f = "g1_climb" THEN "find" ELSE "scan"
    /\ climb_data' = <<>>
    /\ altitude_data' = <<>>
    /\ processed_lines' = {}
    /\ anchor' = 0
    /\ j' = 0
    /\ temp_data' = <<>>

\* what the first run was given and what it returned
FirstRun ==
    IF runs = <<"first">>
    THEN [family |-> family, flap_setting |-> flap_setting, weight |-> weight,
          pages |-> pages, tables |-> Tables]
    ELSE first_run

\* the assemblers run between the two runs compared
OtherRuns ==
    {<<"g1_landing", "50", 5550, << <<GndRollLine(Str(1000), 2)>> >> >>,
     <<"g1_climb", "", 6000, ContinuationPages>>,
     <<"g2_climb", "", 6000, ContinuationPages>>}

\* another assembler is run after the first run
Run_other ==
    /\ pc = "done" /\ runs = <<"first">>
    /\ \E o \in OtherRuns : Enter(o[1], o[2], o[3], o[4])
    /\ runs' = <<"first", "other">>
    /\ first_run' = FirstRun
    /\ UNCHANGED <<isa_altitude, isa_temp_g1, isa_temp_g2, vref_data>>
    /\ UNCHANGED main_vars

\* the assembler of the first run is run again on the same pages
Run_again ==
    /\ pc = "done" /\ runs \in {<<"first">>, <<"first", "other">>}
    /\ Enter(FirstRun.family, FirstRun.flap_setting, FirstRun.weight, FirstRun.pages)
    /\ runs' = Append(runs, "again")
    /\ first_run' = FirstRun
    /\ UNCHANGED <<isa_altitude, isa_temp_g1, isa_temp_g2, vref_data>>
    /\ UNCHANGED main_vars

\* the climb pages of the runs that are repeated
RerunClimbPages ==
    DuplicatePages \cup OutOfRangePages \cup {LongPage}
    \cup {<<CleanAnchor(Str(10000)), l, TempRowLine(20, 4)>> :
            l \in {ZeroRun(14), ZeroRun809, SpecialTempLine, EngineLine, TextLine}}

\* the pages of the runs that are repeated
RerunPages ==
    {ps \in FamilyPages(family) : ps[1] \in SeqPages \cup FarTotalPages}
    \cup {<< << <<>> >>, p>> : p \in RerunClimbPages}
    \cup {<<p1, p2>> : p1 \in FirstPages, p2 \in {<<CleanAnchor(Str(5000)), TempRowLine(-30, 4)>>}}
    \cup {ContinuationPages}

InitRerun == (InitGround \/ InitClimb) /\ pages \in RerunPages

NextRerun == NextGround \/ NextClimb \/ Run_other \/ Run_again

SpecRerun == InitRerun /\ [][NextRerun]_vars

\* the run in progress repeats the first run
Again == runs # <<>> /\ runs[Len(runs)] = "again"

\* C17: an assembler run twice on the same page text returns the same set of records,
\* whether it is run again at once or after another assembler ran in between
C17_SameRecordsAgain ==
    (Again /\ pc = "done")
    => \A k \in 1..3 : RecordSet(Tables[k]) = RecordSet(first_run.tables[k])

C17_Witness ==
    /\ pc = "done" /\ runs = <<"first", "other", "again">>
    /\ family = "g1_takeoff" /\ pages[1][1] = TotalLine(2)
    /\ all_ground_run # <<>>


---------------------------------------------------------------------------
(* main: the input document is looked for, then the tables are extracted   *)
(* and saved.                                                              *)

\* mutant of document_found: the document is not looked for
document_found_always(exists) == TRUE

\* Path(pdf_path).exists() of AFMDataExtractor.__init__, os.path.exists(args.pdf_path)
\* of the G2+ main
document_found(exists) == exists

G1Families == {"g1_takeoff", "g1_landing"}

\* the paths create_output_path builds for the two tables of a scan
TableFiles ==
    LET dir == IF family \in {"g1_takeoff", "g2_takeoff"} THEN <<"takeoff">>
               ELSE <<"landing", flap_setting>>
    IN  {dir \o <<"ground run.csv">>, dir \o <<"total distance.csv">>}

\* main is entered; pages is the text the document holds, or would hold
InitMain ==
    /\ family \in GroundFamilies
    /\ flap_setting \in FamilyFlaps(family)
    /\ weight \in FamilyWeights(family)
    /\ pages \in FamilyPages(family)
    /\ page = 1
    /\ i = 0
    /\ current_altitude = None
    /\ all_ground_run = <<>>
    /\ all_total_distance = <<>>
    /\ pc = "main"
    /\ climb_data = <<>>
    /\ altitude_data = <<>>
    /\ processed_lines = {}
    /\ anchor = 0
    /\ j = 0
    /\ temp_data = <<>>
    /\ isa_altitude = 0
    /\ isa_temp_g1 = <<>>
    /\ isa_temp_g2 = <<>>
    /\ runs = <<"first">>
    /\ first_run = <<>>
    /\ pdf_exists \in BOOLEAN
    /\ exit_status = <<>>
    /\ files = {}
    /\ vref_data = <<>>

\* what main leaves alone
Main_unchanged ==
    /\ UNCHANGED <<family, flap_setting, weight, pages, page, i, current_altitude,
                   all_ground_run, all_total_distance>>
    /\ UNCHANGED climb_vars
    /\ UNCHANGED <<isa_altitude, isa_temp_g1, isa_temp_g2, runs, first_run, pdf_exists,
                   vref_data>>

\* G1: __init__ raises FileNotFoundError before the output directory is made; main
\* logs the error and calls sys.exit(1)
G1_main_FileNotFoundError ==
    /\ pc = "main" /\ family \in G1Families
    /\ ~document_found(pdf_exists)
    /\ exit_status' = <<1>>
    /\ pc' = "exited"
    /\ UNCHANGED files
    /\ Main_unchanged

\* G1: the extractor is constructed and extract_all starts the scan
G1_main_extract_all ==
    /\ pc = "main" /\ family \in G1Families
    /\ document_found(pdf_exists)
    /\ pc' = "scan"
    /\ UNCHANGED <<exit_status, files>>
    /\ Main_unchanged

\* G2+: if not os.path.exists(args.pdf_path): logger.error(...); sys.exit(1)
G2_main_not_exists ==
    /\ pc = "main" /\ family \notin G1Families
    /\ ~document_found(pdf_exists)
    /\ exit_status' = <<1>>
    /\ pc' = "exited"
    /\ UNCHANGED files
    /\ Main_unchanged

\* G2+: with G2PlusAFMDataExtractor(args.pdf_path) as extractor: extract_all_data()
G2_main_extract_all_data ==
    /\ pc = "main" /\ family \notin G1Families
    /\ document_found(pdf_exists)
    /\ pc' = "scan"
    /\ UNCHANGED <<exit_status, files>>
    /\ Main_unchanged

\* the scan is over: save_csv writes the two tables and main returns
Main_save_csv ==
    /\ pc = "done" /\ family \in GroundFamilies /\ exit_status = <<>>
    /\ files' = files \cup TableFiles
    /\ exit_status' = <<0>>
    /\ pc' = "exited"
    /\ Main_unchanged

NextMain ==
    \/ G1_main_FileNotFoundError
    \/ G1_main_extract_all
    \/ G2_main_not_exists
    \/ G2_main_extract_all_data
    \/ NextGround
    \/ Main_save_csv

SpecMain == InitMain /\ [][NextMain]_vars

\* C20: when the input document is missing the run aborts with a failure status before
\* a page is scanned: no line is read, no record is produced and no table file is
\* written, in both extractors
C20_MissingDocumentAborts ==
    ~pdf_exists =>
        /\ pc \in {"main", "exited"}
        /\ pc = "exited" => exit_status = <<1>>
        /\ page = 1 /\ i = 0
        /\ all_ground_run = <<>> /\ all_total_distance = <<>>
        /\ files = {}

C20_Witness ==
    /\ ~pdf_exists /\ pc = "exited" /\ exit_status = <<1>>
    /\ family = "g2_landing" /\ pages = << <<GndRollLine(Str(1000), 2)>> >>


---------------------------------------------------------------------------
(* The G1 climb scan of pages on which an anchor follows the rows of       *)
(* another anchor.                                                         *)

\* the lines that follow the anchors of these pages
ConsumeRowLines == {TempRowLine(20, 4), ZeroRun(14), SpecialTempLine, TextLine}

\* pages of two anchors: the second one may be read as a run-together 0 degC row
ConsumePages ==
    {<<CleanAnchor(a1), r1, a2, r2, r3>> :
        a1 \in {Str(5000), Str(10000)},
        a2 \in {CleanAnchor(Str(0)), SectionAnchor(Str(0)), CleanAnchor(Str(6000))},
        r1 \in ConsumeRowLines, r2 \in ConsumeRowLines, r3 \in ConsumeRowLines}

InitConsume ==
    /\ family = "g1_climb"
    /\ flap_setting = ""
    /\ weight = 6000
    /\ pages \in {<< << <<>> >>, p>> : p \in ConsumePages \cup {LongPage}}
    /\ page = 1
    /\ i = 0
    /\ current_altitude = None
    /\ all_ground_run = <<>>
    /\ all_total_distance = <<>>
    /\ pc = "find"
    /\ climb_data = <<>>
    /\ altitude_data = <<>>
    /\ processed_lines = {}
    /\ anchor = 0
    /\ j = 0
    /\ temp_data = <<>>
    /\ IdleAux

NextConsume ==
    \/ G1_find_altitude_data
    \/ G1_next_anchor
    \/ G1_zero_row
    \/ G1_temp_row
    \/ G1_special_temp_row
    \/ G1_skip_line
    \/ G1_add_data
    \/ G1_return

SpecConsume == InitConsume /\ [][NextConsume]_vars

\* the scan is sequential code that runs until it returns: it does not stop between
\* two steps (every state but the last has a step to take)
SpecConsumeFair == SpecConsume /\ ([]<>(pc = "done") \/ []<><<NextConsume>>_vars)

\* the anchors whose line was consumed as a row of an earlier anchor
ConsumedAnchors == {k \in 1..Len(altitude_data) : altitude_data[k][1] \in processed_lines}

\* C21: the set of consumed lines prevents double counting in the G1 climb scan: a row
\* is read only from a line that no anchor consumed before, the rows of an anchor are
\* collected only when its line was not consumed as a row of an earlier anchor, and the
\* finished scan holds no record at the altitude of an anchor whose line was consumed
C21_ConsumedOnce ==
    [][/\ (pc = "collect" /\ temp_data' # temp_data) => line_idx + j \notin processed_lines
       /\ (pc = "anchor" /\ pc' = "collect") => line_idx \notin processed_lines
       /\ (pc = "anchor" /\ pc' = "done")
          => \A k \in ConsumedAnchors :
                 RecordsAt(climb_data, altitude_data[k][2], Str(-40)) = <<>>]_vars

C21_Witness ==
    /\ family = "g1_climb" /\ pc = "done"
    /\ ConsumedAnchors # {}
    /\ RecordsAt(climb_data, Str(5000), Str(0)) # <<>>


\* the temperatures of a list of records do not decrease
Ascending(recs) ==
    \A a, b \in 1..Len(recs) : a < b => SignedInt(recs[a][3]) <= SignedInt(recs[b][3])

\* C23: the G1 climb scan ends for every page range; it looks at no more than 14 lines
\* below an anchor; and when the text ends while the rows of an altitude are collected,
\* what was collected for it, the -40 row of the anchor included, is emitted with the
\* temperatures in ascending order
C23_G1ClimbEnds ==
    /\ [](Examined => j <= WindowLines)
    /\ [][(G1_adds /\ TextEnded)
          => /\ Added(climb_data, climb_data')
                  = flush(altitude, temp_data, sorted(DOMAIN temp_data))
             /\ Ascending(Added(climb_data, climb_data'))
             /\ Len(RecordsAt(Added(climb_data, climb_data'), altitude, Str(-40))) = 4
             /\ \A temp \in DOMAIN temp_data :
                    RecordsAt(Added(climb_data, climb_data'), altitude, Str(temp)) # <<>>]_vars
    /\ <>(pc = "done")

C23_Witness ==
    /\ family = "g1_climb" /\ pc = "collect"
    /\ TextEnded
    /\ Cardinality(DOMAIN temp_data) >= 3


---------------------------------------------------------------------------
(* Lines that match no pattern of a scan.                                  *)

\* lines of running text
NoPatternLines == {TextLine, WeightLine, EngineLine}

---------------------------------------------------------------------------
(* The labels of a landing row.                                            *)

\* the records of a landing row of n tokens outside the ice setting: the first token
\* at 0, the last at the reference-atmosphere temperature of the altitude, the ones
\* between at 10, 20, ... in the printed order
LandingRecords(wt, a, n, tokens) ==
    [k \in 1..n |-> <<Str(wt), Str(a),
                      IF k = 1 THEN Str(0)
                      ELSE IF k = n THEN ReferenceTemp(a)
                      ELSE Str(10 * (k - 1)),
                      tokens[k]>>]

\* C24: outside the ice setting a landing row of n tokens, 2 <= n <= 7, gives exactly
\* n records in G1 and in G2+: the first token at 0, tokens 2..n-1 at 10, 20, 30, 40,
\* 50 in ascending order, the last at the reference-atmosphere temperature of the
\* altitude; a row of a single token gives the record at 0 only
C24_LandingRowLabels ==
    [][\A n \in 1..7 : \A alt \in GridTokens :
          (/\ family \in {"g1_landing", "g2_landing"} /\ ~IceRun
           /\ ScansLine(GndRollLine(alt, n)))
          => Added(all_ground_run, all_ground_run')
                 = LandingRecords(weight, GridAltitude(alt), n, PrintedGndRoll(n))]_vars

C24_Witness ==
    /\ family = "g2_landing" /\ page = 1 /\ i = 1
    /\ pages[1] = <<GndRollLine(Str(8000), 7)>>
    /\ Len(all_ground_run) = 7
    /\ all_ground_run[6][3] = Str(50)
    /\ all_ground_run[7][3] = ReferenceTemp(8000)


---------------------------------------------------------------------------
(* G1: the reference-speed (Vref) page.                                     *)

\* the largest number of speed values printed on a row
MaxSpeeds == 6

UpLabel == <<"U", "P", " ", "o", "r", " ", "U", "N", "K", "N", "O", "W", "N">>
AdvisoryLabel ==
    <<"S", "P", "E", "E", "D", " ", "H", "I", "G", "H", " ",
      "A", "d", "v", "i", "s", "o", "r", "y", ")">>
Label50 == <<"5", "0", "%">>
Label100 == <<"1", "0", "0", "%">>

\* n speed values from base + 1 on
VrefSpeeds(base, n) == [k \in 1..n |-> Str(base + k)]

\* a row of the page: the label, then the speed values
VrefLine(label, speeds) == label \o <<" ">> \o join(speeds)

VrefRows ==
    {<<label, VrefSpeeds(base, n)>> :
        label \in {UpLabel, Label50, Label100}, base \in {80, 100}, n \in 3..MaxSpeeds}

\* the line index an ice row is printed at
AdvisoryAt == {10, 12, 14, 16}

\* a page: two rows, running text, and an ice row at line index p
VrefPage(r1, r2, p, adv) ==
    <<VrefLine(r1[1], r1[2]), VrefLine(r2[1], r2[2])>>
    \o [k \in 1..(p - 2) |-> TextLine]
    \o <<VrefLine(AdvisoryLabel, adv)>>

VrefPages ==
    {VrefPage(r1, r2, p, VrefSpeeds(90, n)) :
        r1 \in VrefRows,
        r2 \in {<<Label100, VrefSpeeds(70, 4)>>, <<UpLabel, VrefSpeeds(70, 5)>>},
        p \in AdvisoryAt, n \in {4, 5}}

\* weights = ['4000', '4500', '5000', '5500', '6000']
vref_weights == <<Str(4000), Str(4500), Str(5000), Str(5500), Str(6000)>>

\* zip(weights, values[-5:]): the rows of a table (its header row left out)
vref_rows(values) == [k \in 1..5 |-> <<vref_weights[k], values[Len(values) - 5 + k]>>]

\* values = re.findall(r'\d+', line); if len(values) >= 5: vref_data[name] = ...
vref_recorded(vd, name, l) ==
    IF Len(findall_digits(l)) >= 5
    THEN put(vd, name, vref_rows(findall_digits(l)))
    ELSE vd

\* the page text is read; nothing is recorded yet
InitVref ==
    /\ family = "g1_vref"
    /\ flap_setting = ""
    /\ weight = 0
    /\ pages \in {<<p>> : p \in VrefPages}
    /\ page = 1
    /\ i = 0
    /\ current_altitude = None
    /\ all_ground_run = <<>>
    /\ all_total_distance = <<>>
    /\ pc = "scan"
    /\ climb_data = <<>>
    /\ altitude_data = <<>>
    /\ processed_lines = {}
    /\ anchor = 0
    /\ j = 0
    /\ temp_data = <<>>
    /\ IdleAux

Vref_unchanged ==
    /\ UNCHANGED <<family, flap_setting, weight, pages, page, current_altitude,
                   all_ground_run, all_total_distance>>
    /\ UNCHANGED climb_vars
    /\ UNCHANGED <<isa_altitude, isa_temp_g1, isa_temp_g2, runs, first_run, pdf_exists,
                   exit_status>>

\* the line the loop is at (not stripped)
vref_line == lines[i + 1]

Vref_at_line == family = "g1_vref" /\ pc = "scan" /\ i < Len(lines)

IsUpLine(l) == contains(l, UpLabel)
IsAdvisoryLine(l) == ~IsUpLine(l) /\ contains(l, AdvisoryLabel)
Is50Line(l) ==
    /\ ~IsUpLine(l) /\ ~contains(l, AdvisoryLabel)
    /\ IF strip(l) = Label50 THEN TRUE ELSE startswith(strip(l), Label50) /\ Len(l) < 20
Is100Line(l) ==
    /\ ~IsUpLine(l) /\ ~contains(l, AdvisoryLabel) /\ ~Is50Line(l)
    /\ startswith(strip(l), Label100)

\* if "UP or UNKNOWN" in line
Vref_up ==
    /\ Vref_at_line /\ IsUpLine(vref_line)
    /\ vref_data' = vref_recorded(vref_data, "up.csv", vref_line)
    /\ i' = i + 1
    /\ UNCHANGED <<pc, files>>
    /\ Vref_unchanged

\* elif "SPEED HIGH Advisory)" in line: the table is told by the line index
Vref_advisory ==
    /\ Vref_at_line /\ IsAdvisoryLine(vref_line)
    /\ vref_data' = IF i >= 11 /\ i <= 13
                    THEN vref_recorded(vref_data, "up ice.csv", vref_line)
                    ELSE IF i >= 15 /\ i <= 17
                    THEN vref_recorded(vref_data, "50 ice.csv", vref_line)
                    ELSE vref_data
    /\ i' = i + 1
    /\ UNCHANGED <<pc, files>>
    /\ Vref_unchanged

\* elif line.strip() == "50%" or (line.strip().startswith("50%") and len(line) < 20)
Vref_50 ==
    /\ Vref_at_line /\ Is50Line(vref_line)
    /\ vref_data' = vref_recorded(vref_data, "50.csv", vref_line)
    /\ i' = i + 1
    /\ UNCHANGED <<pc, files>>
    /\ Vref_unchanged

\* elif line.strip().startswith("100%")
Vref_100 ==
    /\ Vref_at_line /\ Is100Line(vref_line)
    /\ vref_data' = vref_recorded(vref_data, "100.csv", vref_line)
    /\ i' = i + 1
    /\ UNCHANGED <<pc, files>>
    /\ Vref_unchanged

\* no branch takes the line
Vref_no_match ==
    /\ Vref_at_line
    /\ ~IsUpLine(vref_line) /\ ~contains(vref_line, AdvisoryLabel)
    /\ ~Is50Line(vref_line) /\ ~Is100Line(vref_line)
    /\ i' = i + 1
    /\ UNCHANGED <<pc, files, vref_data>>
    /\ Vref_unchanged

\* for filename, data in vref_data.items(): self.save_csv(...)
Vref_save_csv ==
    /\ family = "g1_vref" /\ pc = "scan" /\ i = Len(lines)
    /\ files' = files \cup {<<"vref", f>> : f \in DOMAIN vref_data}
    /\ pc' = "done"
    /\ UNCHANGED <<i, vref_data>>
    /\ Vref_unchanged

NextVref ==
    \/ Vref_up
    \/ Vref_advisory
    \/ Vref_50
    \/ Vref_100
    \/ Vref_no_match
    \/ Vref_save_csv

SpecVref == InitVref /\ [][NextVref]_vars

\* the table a step recorded: the one whose rows changed
VrefRecorded(old, new) == {f \in DOMAIN new : f \notin DOMAIN old \/ new[f] # old[f]}

\* C25: a Vref row is recorded only when it has at least five speed values, and the
\* table then holds the last five speed values of the row under the weights 4000,
\* 4500, 5000, 5500, 6000 in that order; a row of fewer than five speed values records
\* nothing, and the digits of the label are never recorded as a speed
C25_VrefLastFiveSpeeds ==
    [][\A r \in VrefRows \cup {<<AdvisoryLabel, VrefSpeeds(90, n)>> : n \in {4, 5}} :
          ScansLine(VrefLine(r[1], r[2]))
          => IF Len(r[2]) < 5
             THEN vref_data' = vref_data
             ELSE \A f \in VrefRecorded(vref_data, vref_data') :
                     vref_data'[f] = vref_rows(r[2])]_vars


---------------------------------------------------------------------------
(* G2+: the Total row below a ground-run anchor.                           *)

\* the altitude tokens of the anchors on the pages
AnchorAlts == {SL, <<"0">>, <<"0", "0", "0">>, Str(1000), Str(10000)}

\* range(i-1, max(0, i-5), -1) in the takeoff scan, range(i-1, max(0, i-2), -1) in
\* the landing scan: the lines looked at above a Total row
LinesBack == IF family = "g2_takeoff" THEN 4 ELSE 1

\* C26: in the G2+ scans a Total row on the line right below a ground-run anchor, at
\* any line index from 1 on, yields total-distance records at the altitude of that
\* anchor; records of a Total row are never taken from an anchor more than 4 lines
\* (takeoff) or more than 1 line (landing) above it
C26_TotalBelowAnchor ==
    [][(family \in {"g2_takeoff", "g2_landing"} /\ ScansLine(TotalLine(2)))
       => /\ \A alt \in AnchorAlts :
                (i >= 1 /\ lines[i] = GndRollLine(alt, 2))
                => /\ Added(all_total_distance, all_total_distance') # <<>>
                   /\ \A k \in 1..Len(Added(all_total_distance, all_total_distance')) :
                         Added(all_total_distance, all_total_distance')[k][2]
                             = (IF alt = SL THEN Str(0) ELSE alt)
          /\ Added(all_total_distance, all_total_distance') # <<>>
                => \E b \in 1..LinesBack :
                      i - b >= 0 /\ contains(lines[i - b + 1], GndRoll)]_vars


---------------------------------------------------------------------------
(* The G1 climb scan of 0 degC rows that are printed with their spaces.    *)

\* the k-th value of a row, 3 or 4 digits wide
SpacedValue(k, w) == IF w = 3 THEN Str(900 + 11 * k) ELSE Str(1200 + 111 * k)

\* the four values of a row whose widths are w
SpacedValues(w) == [k \in 1..4 |-> SpacedValue(k, w[k])]

\* '0 v1 v2 v3 v4'
SpacedZeroLine(values) == <<"0", " ">> \o join(values)

ZeroWidths == [1..4 -> {3, 4}]

SpacedPages ==
    {<<CleanAnchor(alt), SpacedZeroLine(SpacedValues(w)), r>> :
        alt \in {Str(5000), Str(9000), Str(10000)}, w \in ZeroWidths,
        r \in {TempRowLine(20, 4), SpecialTempLine, TextLine}}

InitSpaced ==
    /\ family = "g1_climb"
    /\ flap_setting = ""
    /\ weight = 6000
    /\ pages \in {<< << <<>> >>, p>> : p \in SpacedPages}
    /\ page = 1
    /\ i = 0
    /\ current_altitude = None
    /\ all_ground_run = <<>>
    /\ all_total_distance = <<>>
    /\ pc = "find"
    /\ climb_data = <<>>
    /\ altitude_data = <<>>
    /\ processed_lines = {}
    /\ anchor = 0
    /\ j = 0
    /\ temp_data = <<>>
    /\ IdleAux

SpecSpaced == InitSpaced /\ [][NextConsume]_vars

\* C27: a 0 degC row whose four values, each of 3 or 4 digits, are separated by
\* whitespace is recorded with exactly those four values, for the weights 6000, 5500,
\* 5000, 4500 in order, at every altitude: the cut of a run of digits is applied only
\* to rows printed without their spaces
C27_SpacedZeroRow ==
    [][\A w \in ZeroWidths :
          /\ G1_examines(SpacedZeroLine(SpacedValues(w)))
             => 0 \in DOMAIN temp_data' /\ temp_data'[0] = SpacedValues(w)
          /\ G1_returns_over(SpacedZeroLine(SpacedValues(w)))
             => \A alt \in {Str(5000), Str(9000), Str(10000)} :
                   RecordsAt(climb_data', alt, Str(0)) # <<>>
                   => RecordsAt(climb_data', alt, Str(0))
                        = [k \in 1..4 |-> <<Str(weights[k]), alt, Str(0),
                                            SpacedValues(w)[k]>>]]_vars


---------------------------------------------------------------------------
(* The two extractors on the same row.                                     *)

\* the (temperature, value) pairs of a list of records
TempValues(recs) == [k \in 1..Len(recs) |-> <<recs[k][3], recs[k][4]>>]

\* C28: the takeoff assemblers of G1 and G2+ label a ground-run row alike: for every
\* altitude 0, 1000, ..., 10000 and every number of tokens 1..9 the records that
\* _add_performance_values (G1) appends have the same temperatures and values, in the
\* same order, as those _process_takeoff_values (G2+) appends
C28_TakeoffLabelsAgree ==
    [][\A n \in 1..9 : \A alt \in GridTokens :
          /\ (family = "g1_takeoff" /\ ScansLine(GndRollLine(alt, n)))
             => TempValues(Added(all_ground_run, all_ground_run'))
                  = TempValues(_process_takeoff_values(<<>>, weight, Str(GridAltitude(alt)),
                                                       PrintedGndRoll(n)))
          /\ (family = "g2_takeoff" /\ ScansLine(GndRollLine(alt, n)))
             => TempValues(Added(all_ground_run, all_ground_run'))
                  = TempValues(_add_performance_values(<<>>, weight, Str(GridAltitude(alt)),
                                   PrintedGndRoll(n), <<-20, -10, 0, 10, 20, 30, 40, 50>>))]_vars


\* the flap settings of G1 outside the ice configuration
PlainFlaps == {"100", "50"}

\* C29: outside the ice configuration the landing assemblers of G1 and G2+ are
\* equivalent: for every altitude and every list of tokens (of length 0, 1, 2, and
\* more than 7 too) _add_landing_values (G1, flap setting '100' or '50') and
\* _process_landing_values (G2+) append the same records in the same order
C29_LandingLabelsAgree ==
    [][/\ \A n \in 1..MaxTokens : \A alt \in GridTokens :
             /\ (family = "g1_landing" /\ ~IceRun /\ ScansLine(GndRollLine(alt, n)))
                => Added(all_ground_run, all_ground_run')
                     = _process_landing_values(<<>>, weight, Str(GridAltitude(alt)),
                                               PrintedGndRoll(n))
             /\ (family = "g2_landing" /\ ScansLine(GndRollLine(alt, n)))
                => \A flap \in PlainFlaps :
                      Added(all_ground_run, all_ground_run')
                        = _add_landing_values(<<>>, weight, Str(GridAltitude(alt)),
                                              PrintedGndRoll(n), flap)
       /\ \A flap \in PlainFlaps : \A alt \in GridTokens :
             _add_landing_values(all_ground_run, weight, Str(GridAltitude(alt)), <<>>, flap)
               = _process_landing_values(all_ground_run, weight, Str(GridAltitude(alt)),
                                         <<>>)]_vars

C29_Witness ==
    /\ family = "g1_landing" /\ flap_setting = "50" /\ page = 1 /\ i = 1
    /\ pages[1] = <<GndRollLine(Str(9000), 9)>>
    /\ Len(all_ground_run) = 7
    /\ all_ground_run[6][3] = Str(50)
    /\ all_ground_run[7] = <<Str(weight), Str(9000), ReferenceTemp(9000), PrintedGndRoll(9)[9]>>


---------------------------------------------------------------------------
(* The reference-atmosphere temperature along the altitude.                *)

\* C30: the reference-atmosphere temperature falls strictly with the altitude over
\* all integer altitudes, on the grid and off it: calculate_isa_temp(a) >
\* calculate_isa_temp(b) for all integers 0 <= a < b <= 11000, in G1 and in G2+ (in
\* units of 0.00001 degC)
C30_IsaStrictlyDecreasing ==
    \A b \in IsaAltitudes :
        (isa_altitude < b /\ b <= 11000)
        => /\ isa_temp_g1 # <<>> => isa_temp_g1[1] > calculate_isa_temp(b)
           /\ isa_temp_g2 # <<>> => isa_temp_g2[1] > G2_calculate_isa_temp(b)

=============================================================================
